---- MODULE Spec2Model ----
(***************************************************************************)
(* Key management core of the Hicu chat client: identity key pairs         *)
(* (publicKeyManager), the local key vault (keyStorage), per-chat key      *)
(* resolution with request coalescing (chatKeyManager.getChatKey), key     *)
(* distribution (shareKeyWithParticipants) and the text message path       *)
(* (chatMessagesService).  One DM chat between two users; every device is  *)
(* one browser process with its own localStorage, IndexedDB vault and      *)
(* keyCachePromises map.  Firestore documents are shared by all devices.   *)
(***************************************************************************)
EXTENDS Integers, FiniteSets, Sequences, TLC

\* ------------------------------------------------------------------ bounds
MaxClears == 1      \* explicit vault clears (clearAllKeys) in one run
MaxCalls == 3       \* getChatKey calls in one run
MaxMessages == 1    \* message documents in the chat
MaxTextLen == 2     \* UTF-16 code units of a text handed to encryptText
MaxFileLen == 2     \* bytes of a file handed to encryptFile
MAX_CACHE_SIZE == 2 \* entries of the media cache (100 in the source)
MaxUrls == 4        \* URL.createObjectURL calls of media downloads in one run
MaxDocs == 2        \* message documents of one snapshot

\* ------------------------------------------------------- the configuration
Users == {"a", "b"}                 \* chatData.participants (lowercased)
Devices == {"d1", "d2", "d3"}       \* d1, d3: two browsers of a; d2: b's
Callers == {"send", "recv"}         \* the getChatKey call sites of a page
Texts == {1}                        \* trimmed message texts
NoUser == "none"
NoCaller == "none"

DevUser(d) == IF d = "d2" THEN "b" ELSE "a"
PairOf(d) == IF d = "d1" THEN 1 ELSE IF d = "d2" THEN 2 ELSE 3

\* ------------------------------------------------------------------ values
\* Every stored value is a record [t, id, key]: t says what kind of bytes
\* it is, id names an RSA key pair (or a text), key names an AES key.
Absent == [t |-> "absent", id |-> 0, key |-> 0]
Failure == [t |-> "error", id |-> 0, key |-> 0]
Empty == [t |-> "empty", id |-> 0, key |-> 0]
PubKey(p) == [t |-> "pub", id |-> p, key |-> 0]
PrivKey(p) == [t |-> "priv", id |-> p, key |-> 0]
RawKey(k) == [t |-> "raw", id |-> 0, key |-> k]
PlainText(x) == [t |-> "plain", id |-> x, key |-> 0]
Base64Raw(k) == [t |-> "b64raw", id |-> 0, key |-> k]
LegacyKey == Base64Raw(0)           \* chatData.encryptionKey of a pre-E2E chat

\* generateKeyPair + exportPublicKey / exportPrivateKey on device d
GenerateKeyPair(d) == [priv |-> PrivKey(PairOf(d)), pub |-> PubKey(PairOf(d))]
NoKeyPair == [priv |-> Absent, pub |-> Absent]

\* encryptWithPublicKey: RSA-OAEP under the pair of publicKey
EncryptWithPublicKeyLeak(data, publicKey) == data
EncryptWithPublicKey(data, publicKey) ==
    [t |-> "wrapped", id |-> publicKey.id, key |-> data.key]

\* decryptWithPrivateKey: throws unless the private key is of the same pair
DecryptWithPrivateKeyAny(enc, privateKey) ==
    IF enc.t = "wrapped" THEN RawKey(enc.key) ELSE Failure
DecryptWithPrivateKey(enc, privateKey) ==
    IF enc.t = "wrapped" /\ privateKey.t = "priv" /\ enc.id = privateKey.id
    THEN RawKey(enc.key)
    ELSE Failure

\* encryptText / decryptText: AES-GCM under key
EncryptText(text, key) == [t |-> "ct", id |-> text, key |-> key.key]
DecryptText(ct, key) ==
    IF ct.t = "ct" /\ key.t = "raw" /\ ct.key = key.key
    THEN PlainText(ct.id)
    ELSE Failure

\* atob of the legacy chatData.encryptionKey
DecodeLegacyKeyRaw(b64) == b64
DecodeLegacyKey(b64) == IF b64.t = "b64raw" THEN RawKey(b64.key) ELSE Failure

\* ------------------------------------------------------------------- state
VARIABLES
    directory,          \* users/{email}.publicKey
    localStorage,       \* per device: userPrivateKey, userPublicKey
    vault,              \* per device: IndexedDB chatKeys entry of the chat
    chat,               \* chats/{chatId}
    messages,           \* chats/{chatId}/messages
    keyCachePromises,   \* per device: the caller whose promise is cached
    prom,               \* per device and caller: the promise that call started
    call,               \* per device and caller: the getChatKey call
    dm,                 \* per device: getOrCreateDmChat in progress
    nextKey,            \* next fresh AES key
    clears,             \* per device: vault clears so far
    calls,              \* getChatKey calls so far
    firstKey,           \* the first key a getChatKey resolution returned
    unwrapped,          \* per device: a resolution has unwrapped its package
    codec,              \* one application of the codec functions
    keyStore,           \* a browser's chatKeys object store with all its chats
    media,              \* the decrypted media cache of a process
    inbox,              \* one snapshot handed to subscribeToChatMessages
    download,           \* one getDecryptedMediaUrl call and the blob store
    upload              \* one uploadMedia call and what it has written

vars == <<directory, localStorage, vault, chat, messages,
          keyCachePromises, prom, call, dm, nextKey, clears, calls, firstKey,
          unwrapped, codec, keyStore, media, inbox, download, upload>>

NoPackages == [u \in Users |-> Absent]
NoChat ==
    [exists |-> FALSE, hasKeyPackages |-> FALSE, keyPackages |-> NoPackages,
     e2eeEnabled |-> FALSE, encryptionKey |-> Absent, lastMessage |-> Empty]
\* the document getOrCreateDmChat writes
NewChat == [NoChat EXCEPT !.exists = TRUE]
\* a chat of the pre-E2E scheme, its key embedded in the document
LegacyChat == [NewChat EXCEPT !.encryptionKey = LegacyKey]

NoPromise == [pc |-> "none", me |-> NoUser, rawKey |-> Absent, via |-> "none"]
IdleCall == [st |-> "idle", p |-> NoCaller, key |-> Absent, via |-> "none",
             with |-> {}]

\* no codec application under way
NoCodec == [op |-> "none"]

\* the stores and the process state after construction
InitState ==
    /\ directory = [u \in Users |-> Absent]
    /\ localStorage = [d \in Devices |-> NoKeyPair]
    /\ vault = [d \in Devices |-> Absent]
    /\ chat \in {NoChat, LegacyChat}
    /\ messages = {}
    /\ keyCachePromises = [d \in Devices |-> NoCaller]
    /\ prom = [d \in Devices |-> [c \in Callers |-> NoPromise]]
    /\ call = [d \in Devices |-> [c \in Callers |-> IdleCall]]
    /\ dm = [d \in Devices |-> "idle"]
    /\ nextKey = 1
    /\ clears = [d \in Devices |-> 0]
    /\ calls = 0
    /\ firstKey = Absent
    /\ unwrapped = [d \in Devices |-> FALSE]

\* the parts of the process a specification does not exercise
NoKeyStore == [op |-> "none"]
NoMedia == [op |-> "none"]
NoInbox == [op |-> "none"]
NoDownload == [op |-> "none"]
NoUpload == [op |-> "none"]

Init ==
    /\ InitState
    /\ codec = NoCodec
    /\ keyStore = NoKeyStore /\ media = NoMedia /\ inbox = NoInbox
    /\ download = NoDownload /\ upload = NoUpload

\* ------------------------------------------------ identity keys (firebase.js)
\* getMyPrivateKey: throws when localStorage holds no private key
GetMyPrivateKey(d) ==
    IF localStorage[d].priv.t = "priv" THEN localStorage[d].priv ELSE Failure

\* the value initializeUserKeyPair uploads as users/{email}.publicKey
PublishedValuePrivate(d) == localStorage[d].priv
PublishedValue(d) == localStorage[d].pub

\* initializeUserKeyPair with a key pair in localStorage (lines 170-194):
\* the stored public key is uploaded only when the directory holds none
ReuploadPublicKey(d) ==
    /\ localStorage[d].priv.t = "priv" /\ localStorage[d].pub.t = "pub"
    /\ directory[DevUser(d)].t = "absent"
    /\ directory' = [directory EXCEPT ![DevUser(d)] = PublishedValue(d)]
    /\ UNCHANGED <<localStorage, vault, chat, messages, keyCachePromises,
                   prom, call, dm, nextKey, clears, calls, firstKey,
                   unwrapped, codec, keyStore, media, inbox,
                   download, upload>>

\* initializeUserKeyPair without a stored pair (lines 196-220): a pair is
\* generated and stored in localStorage, then setDoc publishes the public
\* key, whatever the directory held; when setDoc fails (published = FALSE)
\* the caller logs the error and the login goes on
InitializeUserKeyPair(d) ==
    /\ ~(localStorage[d].priv.t = "priv" /\ localStorage[d].pub.t = "pub")
    /\ localStorage' = [localStorage EXCEPT ![d] = GenerateKeyPair(d)]
    /\ \E published \in BOOLEAN :
         directory' = IF published
                      THEN [directory EXCEPT ![DevUser(d)] = PublishedValue(d)']
                      ELSE directory
    /\ UNCHANGED <<vault, chat, messages, keyCachePromises, prom, call, dm,
                   nextKey, clears, calls, firstKey,
                   unwrapped, codec, keyStore, media, inbox,
                   download, upload>>

\* what a call of initializeUserKeyPair on d that returns leaves behind (lines
\* 165-221): the pair in localStorage of d and users/{email}.publicKey
InitializedUserKeyPair(d) ==
    IF localStorage[d].priv.t = "priv" /\ localStorage[d].pub.t = "pub"
    THEN [localStorage |-> localStorage[d],
          publicKey |-> IF directory[DevUser(d)].t = "absent"
                        THEN PublishedValue(d)
                        ELSE directory[DevUser(d)]]
    ELSE [localStorage |-> GenerateKeyPair(d),
          publicKey |-> GenerateKeyPair(d).pub]

\* ------------------------------------------- chat creation (dmChatService)
\* getOrCreateDmChat up to its setDoc: the getDoc and the exists test
GetOrCreateDmChat(d) ==
    /\ dm[d] = "idle"
    /\ ~chat.exists
    /\ dm' = [dm EXCEPT ![d] = "create"]
    /\ UNCHANGED <<directory, localStorage, vault, chat, messages,
                   keyCachePromises, prom, call, nextKey, clears, calls, firstKey,
                   unwrapped, codec, keyStore, media, inbox,
                   download, upload>>

\* the setDoc(chatRef, {...}) of getOrCreateDmChat: it replaces the document
CreateDmChat(d) ==
    /\ dm[d] = "create"
    /\ chat' = NewChat
    /\ dm' = [dm EXCEPT ![d] = "idle"]
    /\ UNCHANGED <<directory, localStorage, vault, messages,
                   keyCachePromises, prom, call, nextKey, clears, calls, firstKey,
                   unwrapped, codec, keyStore, media, inbox,
                   download, upload>>

\* ---------------------------------------------------- vault (keyStorage.js)
\* clearAllKeys: the explicit vault clear
ClearCount == clears["d1"] + clears["d2"] + clears["d3"]

ClearAllKeys(d) ==
    /\ ClearCount < MaxClears
    /\ vault[d].t = "raw"
    /\ vault' = [vault EXCEPT ![d] = Absent]
    /\ clears' = [clears EXCEPT ![d] = @ + 1]
    /\ UNCHANGED <<directory, localStorage, chat, messages, keyCachePromises,
                   prom, call, dm, nextKey, calls, firstKey,
                   unwrapped, codec, keyStore, media, inbox,
                   download, upload>>

\* createKeyPackage(chatId, recipientEmail).encryptedKey on device d: throws
\* without a vault key or without a published key of the recipient
CreateKeyPackage(d, u) ==
    IF vault[d].t = "raw" /\ directory[u].t = "pub"
    THEN EncryptWithPublicKey(vault[d], directory[u])
    ELSE Failure

\* ------------------------------------- key resolution (chatKeyManager.js)
\* keyCachePromises.has(chatId)
CacheHitNever(d) == FALSE
CacheHitUnlessRejected(d) ==
    /\ keyCachePromises[d] # NoCaller
    /\ prom[d][keyCachePromises[d]].pc # "rejected"
CacheHit(d) == keyCachePromises[d] # NoCaller

\* chatData.keyPackages && chatData.keyPackages[myEmail.toLowerCase()]
HasMyPackage(chatData, me) ==
    /\ me # NoUser
    /\ chatData.hasKeyPackages
    /\ chatData.keyPackages[me].t # "absent"

\* priority 1, the try block: getMyPrivateKey, decryptWithPrivateKey; any
\* throw is caught and yields Failure
UnwrapMyPackage(chatData, me, d) ==
    IF ~HasMyPackage(chatData, me) THEN Failure
    ELSE IF GetMyPrivateKey(d).t = "error" THEN Failure
    ELSE DecryptWithPrivateKey(chatData.keyPackages[me], GetMyPrivateKey(d))

\* priority 2, the orphan test: packages exist, none is mine, no e2ee flag
IsOrphanedIgnoringMarker(chatData, me) ==
    /\ chatData.hasKeyPackages
    /\ me # NoUser
    /\ chatData.keyPackages[me].t = "absent"
IsOrphaned(chatData, me) ==
    /\ chatData.hasKeyPackages
    /\ me # NoUser
    /\ chatData.keyPackages[me].t = "absent"
    /\ ~chatData.e2eeEnabled

\* priorities 1 to 3 on the document read by getDoc: how the key is found
\* (via), the key, and the vault entry left behind; via "gen" is priority 4,
\* reached with purged set when deleteKey has removed an orphaned entry
ResolveLocalNoStore(chatData, me, d) ==
    LET p1 == UnwrapMyPackage(chatData, me, d)
        v2 == IF vault[d].t = "raw" /\ IsOrphaned(chatData, me)
              THEN Absent ELSE vault[d]
        legacy == DecodeLegacyKey(chatData.encryptionKey)
        purged == vault[d].t = "raw" /\ v2.t # "raw"
    IN  IF p1.t = "raw"
        THEN [via |-> "pkg", key |-> p1, vault |-> vault[d],
              purged |-> FALSE]
        ELSE IF v2.t = "raw"
        THEN [via |-> "vault", key |-> v2, vault |-> v2,
              purged |-> FALSE]
        ELSE IF chatData.encryptionKey.t # "absent"
        THEN [via |-> "legacy", key |-> legacy, vault |-> legacy,
              purged |-> FALSE]
        ELSE [via |-> "gen", key |-> Absent, vault |-> v2,
              purged |-> purged]
ResolveLocalRethrow(chatData, me, d) ==
    LET p1 == UnwrapMyPackage(chatData, me, d)
        v2 == IF vault[d].t = "raw" /\ IsOrphaned(chatData, me)
              THEN Absent ELSE vault[d]
        legacy == DecodeLegacyKey(chatData.encryptionKey)
        purged == vault[d].t = "raw" /\ v2.t # "raw"
    IN  IF p1.t = "raw"
        THEN [via |-> "pkg", key |-> p1, vault |-> p1,
              purged |-> FALSE]
        ELSE IF HasMyPackage(chatData, me)
        THEN [via |-> "throw", key |-> Absent, vault |-> vault[d],
              purged |-> FALSE]
        ELSE IF v2.t = "raw"
        THEN [via |-> "vault", key |-> v2, vault |-> v2,
              purged |-> FALSE]
        ELSE IF chatData.encryptionKey.t # "absent"
        THEN [via |-> "legacy", key |-> legacy, vault |-> legacy,
              purged |-> FALSE]
        ELSE [via |-> "gen", key |-> Absent, vault |-> v2,
              purged |-> purged]
ResolveLocalVaultFirst(chatData, me, d) ==
    LET p1 == UnwrapMyPackage(chatData, me, d)
        v2 == IF vault[d].t = "raw" /\ IsOrphaned(chatData, me)
              THEN Absent ELSE vault[d]
        legacy == DecodeLegacyKey(chatData.encryptionKey)
        purged == vault[d].t = "raw" /\ v2.t # "raw"
    IN  IF v2.t = "raw"
        THEN [via |-> "vault", key |-> v2, vault |-> v2,
              purged |-> FALSE]
        ELSE IF p1.t = "raw"
        THEN [via |-> "pkg", key |-> p1, vault |-> p1,
              purged |-> FALSE]
        ELSE IF chatData.encryptionKey.t # "absent"
        THEN [via |-> "legacy", key |-> legacy, vault |-> legacy,
              purged |-> FALSE]
        ELSE [via |-> "gen", key |-> Absent, vault |-> v2,
              purged |-> purged]
ResolveLocal(chatData, me, d) ==
    LET p1 == UnwrapMyPackage(chatData, me, d)
        v2 == IF vault[d].t = "raw" /\ IsOrphaned(chatData, me)
              THEN Absent ELSE vault[d]
        legacy == DecodeLegacyKey(chatData.encryptionKey)
        purged == vault[d].t = "raw" /\ v2.t # "raw"
    IN  IF p1.t = "raw"
        THEN [via |-> "pkg", key |-> p1, vault |-> p1,
              purged |-> FALSE]
        ELSE IF v2.t = "raw"
        THEN [via |-> "vault", key |-> v2, vault |-> v2,
              purged |-> FALSE]
        ELSE IF chatData.encryptionKey.t # "absent"
        THEN [via |-> "legacy", key |-> legacy, vault |-> legacy,
              purged |-> FALSE]
        ELSE [via |-> "gen", key |-> Absent, vault |-> v2,
              purged |-> purged]

\* the keyPackages map shareKeyWithParticipants writes: one package for each
\* participant whose getUserPublicKey does not throw
KeyPackagesAll(rawKey) ==
    [u \in Users |-> EncryptWithPublicKey(rawKey, PubKey(0))]
KeyPackagesNoneOnFailure(rawKey) ==
    [u \in Users |->
        IF \A v \in Users : directory[v].t = "pub"
        THEN EncryptWithPublicKey(rawKey, directory[u])
        ELSE Absent]
KeyPackagesFor(rawKey) ==
    [u \in Users |->
        IF directory[u].t = "pub"
        THEN EncryptWithPublicKey(rawKey, directory[u])
        ELSE Absent]

\* the promise of (d, c) settles: every call awaiting it gets the outcome
Settle(d, c, outcome, key, via) ==
    /\ prom' = [prom EXCEPT ![d][c] =
                  [pc |-> outcome, me |-> @.me, rawKey |-> key, via |-> via]]
    /\ call' = [call EXCEPT ![d] = [x \in Callers |->
                  IF call[d][x].st = "wait" /\ call[d][x].p = c
                  THEN [call[d][x] EXCEPT
                          !.st = IF outcome = "resolved" THEN "have" ELSE "fail",
                          !.key = key, !.via = via]
                  ELSE call[d][x]]]
    /\ firstKey' = IF outcome = "resolved" /\ firstKey.t = "absent"
                   THEN key ELSE firstKey

\* getChatKey(chatId, myEmail), its synchronous part: the cache test, and on
\* a miss the start of the resolution and keyCachePromises.set; the chat
\* page that calls it is entered only after getOrCreateDmChat has returned;
\* myEmail is NoUser when the caller passes no email (myEmail = null)
GetChatKeyAs(d, c, myEmail) ==
    /\ call[d][c].st = "idle"
    /\ dm[d] = "idle"
    /\ LET waiting == {x \in Callers : call[d][x].st = "wait"} IN
       IF CacheHit(d)
       THEN LET p == keyCachePromises[d]
                pr == prom[d][p]
            IN  /\ call' = [call EXCEPT ![d][c] =
                      [st |-> IF pr.pc = "resolved" THEN "have"
                              ELSE IF pr.pc = "rejected" THEN "fail"
                              ELSE "wait",
                       p |-> p,
                       key |-> IF pr.pc = "resolved" THEN pr.rawKey ELSE Absent,
                       via |-> IF pr.pc = "resolved" THEN pr.via ELSE "none",
                       with |-> waiting]]
                /\ UNCHANGED <<prom, keyCachePromises>>
       ELSE /\ prom' = [prom EXCEPT ![d][c] =
                  [pc |-> "read", me |-> myEmail, rawKey |-> Absent,
                   via |-> "none"]]
            /\ keyCachePromises' = [keyCachePromises EXCEPT ![d] = c]
            /\ call' = [call EXCEPT ![d][c] =
                  [st |-> "wait", p |-> c, key |-> Absent, via |-> "none",
                   with |-> waiting]]
    /\ UNCHANGED <<directory, localStorage, vault, chat, messages, dm,
                   nextKey, clears, firstKey,
                   unwrapped, codec, keyStore, media, inbox,
                   download, upload>>

\* getChatKey(chatId, user.email) of sendChatMessage, uploadMedia,
\* subscribeToChatMessages and getDecryptedMediaUrl
GetChatKey(d, c) == GetChatKeyAs(d, c, DevUser(d))

\* getChatKey(chatId) of sendMediaMessage
GetChatKeyNoEmail(d, c) == GetChatKeyAs(d, c, NoUser)

\* a getChatKey call counted against the bound of the run
CountedGetChatKey(d, c) ==
    /\ calls < MaxCalls
    /\ calls' = calls + 1
    /\ GetChatKey(d, c)

CountedGetChatKeyNoEmail(d, c) ==
    /\ calls < MaxCalls
    /\ calls' = calls + 1
    /\ GetChatKeyNoEmail(d, c)

ResolveChatKeyConsuming(d, c) ==
    /\ prom[d][c].pc = "read"
    /\ IF ~chat.exists
       THEN /\ Settle(d, c, "rejected", Absent, "none")
            /\ UNCHANGED <<vault, unwrapped>>
       ELSE LET r == ResolveLocal(chat, prom[d][c].me, d) IN
            /\ vault' = [vault EXCEPT ![d] = r.vault]
            /\ unwrapped' = [unwrapped EXCEPT ![d] = @ \/ r.via = "pkg"]
            /\ IF r.via = "gen"
               THEN /\ prom' = [prom EXCEPT
                          ![d][c].pc = "gen",
                          ![d][c].via = IF r.purged THEN "orphan" ELSE "none"]
                    /\ UNCHANGED <<call, firstKey>>
               ELSE IF r.via = "throw"
               THEN Settle(d, c, "rejected", Absent, "none")
               ELSE Settle(d, c, "resolved", r.key, r.via)
    /\ chat' = IF chat.exists /\ HasMyPackage(chat, prom[d][c].me)
               THEN [chat EXCEPT !.keyPackages[prom[d][c].me] = Absent]
               ELSE chat
    /\ UNCHANGED <<directory, localStorage, messages, keyCachePromises,
                   dm, nextKey, clears, calls, codec,
                   keyStore, media, inbox,
                   download, upload>>

\* the resolution from getDoc to the end of priority 3 (lines 53-121); a
\* throw that escapes the body ("Chat not found", via "throw") rejects the
\* promise
ResolveChatKey(d, c) ==
    /\ prom[d][c].pc = "read"
    /\ IF ~chat.exists
       THEN /\ Settle(d, c, "rejected", Absent, "none")
            /\ UNCHANGED <<vault, unwrapped>>
       ELSE LET r == ResolveLocal(chat, prom[d][c].me, d) IN
            /\ vault' = [vault EXCEPT ![d] = r.vault]
            /\ unwrapped' = [unwrapped EXCEPT ![d] = @ \/ r.via = "pkg"]
            /\ IF r.via = "gen"
               THEN /\ prom' = [prom EXCEPT
                          ![d][c].pc = "gen",
                          ![d][c].via = IF r.purged THEN "orphan" ELSE "none"]
                    /\ UNCHANGED <<call, firstKey>>
               ELSE IF r.via = "throw"
               THEN Settle(d, c, "rejected", Absent, "none")
               ELSE Settle(d, c, "resolved", r.key, r.via)
    /\ UNCHANGED <<directory, localStorage, chat, messages, keyCachePromises,
                   dm, nextKey, clears, calls, codec,
                   keyStore, media, inbox,
                   download, upload>>

\* priority 4 without the storeKey of line 128
GenerateChatKeyNoStore(d, c) ==
    /\ prom[d][c].pc = "gen"
    /\ prom' = [prom EXCEPT ![d][c].pc = "share",
                            ![d][c].rawKey = RawKey(nextKey)]
    /\ nextKey' = nextKey + 1
    /\ UNCHANGED <<directory, localStorage, vault, chat, messages,
                   keyCachePromises, call, dm, clears, calls, firstKey,
                   unwrapped, codec, keyStore, media, inbox,
                   download, upload>>

\* priority 4: generateChatKey and storeKey (lines 125-128)
GenerateChatKey(d, c) ==
    /\ prom[d][c].pc = "gen"
    /\ vault' = [vault EXCEPT ![d] = RawKey(nextKey)]
    /\ prom' = [prom EXCEPT ![d][c].pc = "share",
                            ![d][c].rawKey = RawKey(nextKey)]
    /\ nextKey' = nextKey + 1
    /\ UNCHANGED <<directory, localStorage, chat, messages, keyCachePromises,
                   call, dm, clears, calls, firstKey,
                   unwrapped, codec, keyStore, media, inbox,
                   download, upload>>

\* priority 4 with a storeKey that rejects (IndexedDB not available, quota):
\* the error leaves the resolution through the finally block
GenerateChatKeyStoreFails(d, c) ==
    /\ prom[d][c].pc = "gen"
    /\ Settle(d, c, "rejected", Absent, "none")
    /\ nextKey' = nextKey + 1
    /\ UNCHANGED <<directory, localStorage, vault, chat, messages,
                   keyCachePromises, dm, clears, calls,
                   unwrapped, codec, keyStore, media, inbox,
                   download, upload>>

\* shareKeyWithParticipants: the updateDoc replaces the keyPackages map
ShareKeyWithParticipants(d, c) ==
    /\ prom[d][c].pc = "share"
    /\ chat' = [chat EXCEPT !.keyPackages = KeyPackagesFor(prom[d][c].rawKey),
                            !.hasKeyPackages = TRUE]
    /\ prom' = [prom EXCEPT ![d][c].pc = "flag"]
    /\ UNCHANGED <<directory, localStorage, vault, messages, keyCachePromises,
                   call, dm, nextKey, clears, calls, firstKey,
                   unwrapped, codec, keyStore, media, inbox,
                   download, upload>>

\* updateDoc(chatRef, {e2eeEnabled: true}) and the return (lines 138-143)
MarkE2eeEnabled(d, c) ==
    /\ prom[d][c].pc = "flag"
    /\ chat' = [chat EXCEPT !.e2eeEnabled = TRUE]
    /\ Settle(d, c, "resolved", prom[d][c].rawKey, "gen")
    /\ UNCHANGED <<directory, localStorage, vault, messages, keyCachePromises,
                   dm, nextKey, clears, calls, unwrapped, codec,
                   keyStore, media, inbox,
                   download, upload>>

ExpireCacheOnSuccess(d) ==
    /\ keyCachePromises[d] # NoCaller
    /\ prom[d][keyCachePromises[d]].pc = "resolved"
    /\ keyCachePromises' = [keyCachePromises EXCEPT ![d] = NoCaller]
    /\ prom' = [prom EXCEPT ![d][keyCachePromises[d]] = NoPromise]
    /\ UNCHANGED <<directory, localStorage, vault, chat, messages, call,
                   dm, nextKey, clears, calls, firstKey,
                   unwrapped, codec, keyStore, media, inbox,
                   download, upload>>

ExpireCacheUnsettled(d) ==
    /\ keyCachePromises[d] # NoCaller
    /\ keyCachePromises' = [keyCachePromises EXCEPT ![d] = NoCaller]
    /\ UNCHANGED <<directory, localStorage, vault, chat, messages, call, prom,
                   dm, nextKey, clears, calls, firstKey,
                   unwrapped, codec, keyStore, media, inbox,
                   download, upload>>

\* the setTimeout of the finally block: keyCachePromises.delete(chatId)
ExpireCache(d) ==
    /\ keyCachePromises[d] # NoCaller
    /\ prom[d][keyCachePromises[d]].pc \in {"resolved", "rejected"}
    /\ keyCachePromises' = [keyCachePromises EXCEPT ![d] = NoCaller]
    /\ prom' = [prom EXCEPT ![d][keyCachePromises[d]] = NoPromise]
    /\ UNCHANGED <<directory, localStorage, vault, chat, messages, call, 
                   dm, nextKey, clears, calls, firstKey,
                   unwrapped, codec, keyStore, media, inbox,
                   download, upload>>

\* ------------------------------------ text messages (chatMessagesService)
\* a call site is done with its key: it no longer runs beside the others
Finish(d, c) ==
    call' = [call EXCEPT ![d] = [x \in Callers |->
                IF x = c THEN IdleCall
                ELSE [call[d][x] EXCEPT !.with = @ \ {c}]]]

\* the lastMessage field sendChatMessage writes to the chat document
LastMessagePreview(text, key) == PlainText(text)

\* sendChatMessage after getChatKey: encryptText, addDoc, the chat update
SendChatMessage(d) ==
    /\ call[d]["send"].st = "have"
    /\ Cardinality(messages) < MaxMessages
    /\ \E text \in Texts :
         /\ messages' = messages \cup
              {[encryptedText |-> EncryptText(text, call[d]["send"].key),
                text |-> Empty, email |-> DevUser(d)]}
         /\ chat' = IF chat.exists
                    THEN [chat EXCEPT !.lastMessage =
                            LastMessagePreview(text, call[d]["send"].key)]
                    ELSE chat
    /\ Finish(d, "send")
    /\ UNCHANGED <<directory, localStorage, vault, keyCachePromises, prom, 
                   dm, nextKey, clears, calls, firstKey,
                   unwrapped, codec, keyStore, media, inbox,
                   download, upload>>

\* the snapshot handler of subscribeToChatMessages after getChatKey
DeliverMessages(d) ==
    /\ call[d]["recv"].st = "have"
    /\ Finish(d, "recv")
    /\ UNCHANGED <<directory, localStorage, vault, chat, messages,
                   keyCachePromises, prom, dm, nextKey, clears, calls, firstKey,
                   unwrapped, codec, keyStore, media, inbox,
                   download, upload>>

\* getChatKey rejected: sendChatMessage throws, the handler calls onError
CallFailed(d, c) ==
    /\ call[d][c].st = "fail"
    /\ Finish(d, c)
    /\ UNCHANGED <<directory, localStorage, vault, chat, messages,
                   keyCachePromises, prom, dm, nextKey, clears, calls, firstKey,
                   unwrapped, codec, keyStore, media, inbox,
                   download, upload>>

\* ------------------------- the codec (chatKeyManager.js, mediaCrypto.js)
\* UTF-16 code units of a JavaScript string: "A" is U+0041, "H" the high
\* surrogate U+D83D, "L" the low surrogate U+DE00; "H","L" in this order are
\* the well-formed pair of U+1F600, "R" is U+FFFD
CodeUnits == {"A", "H", "L"}
FileBytes == {0, 255}
AesKeys == {RawKey(1), RawKey(2)}   \* the CryptoKeys importKey returns
Ivs == {1, 2}                       \* values of the random 12-byte IV
KeyPairs == {1, 2}                  \* RSA-OAEP key pairs

SeqsUpTo(S, n) == UNION {[1..k -> S] : k \in 0..n}

\* the scalar values of a string (TextEncoder converts its argument to a
\* USVString): a surrogate pair is one scalar value, a surrogate outside a
\* pair becomes U+FFFD
RECURSIVE ToScalarValues(_)
ToScalarValues(s) ==
    IF s = <<>> THEN <<>>
    ELSE IF Len(s) >= 2 /\ s[1] = "H" /\ s[2] = "L"
    THEN <<"S">> \o ToScalarValues(SubSeq(s, 3, Len(s)))
    ELSE IF s[1] \in {"H", "L"}
    THEN <<"R">> \o ToScalarValues(Tail(s))
    ELSE <<s[1]>> \o ToScalarValues(Tail(s))

\* the UTF-8 bytes of one scalar value
Utf8Of(v) ==
    IF v = "A" THEN <<65>>
    ELSE IF v = "S" THEN <<240, 159, 152, 128>>
    ELSE <<239, 191, 189>>

RECURSIVE Utf8(_)
Utf8(vs) == IF vs = <<>> THEN <<>> ELSE Utf8Of(Head(vs)) \o Utf8(Tail(vs))

\* new TextEncoder().encode(text)
TextEncode(text) == Utf8(ToScalarValues(text))

\* new TextDecoder().decode(bytes): a malformed byte decodes to U+FFFD
RECURSIVE TextDecodeBmp(_)
TextDecodeBmp(bytes) ==
    IF bytes = <<>> THEN <<>>
    ELSE IF bytes[1] = 65 THEN <<"A">> \o TextDecodeBmp(Tail(bytes))
    ELSE IF Len(bytes) >= 3 /\ SubSeq(bytes, 1, 3) = <<239, 191, 189>>
    THEN <<"R">> \o TextDecodeBmp(SubSeq(bytes, 4, Len(bytes)))
    ELSE <<"R">> \o TextDecodeBmp(Tail(bytes))
RECURSIVE TextDecode(_)
TextDecode(bytes) ==
    IF bytes = <<>> THEN <<>>
    ELSE IF bytes[1] = 65 THEN <<"A">> \o TextDecode(Tail(bytes))
    ELSE IF Len(bytes) >= 4 /\ SubSeq(bytes, 1, 4) = <<240, 159, 152, 128>>
    THEN <<"H", "L">> \o TextDecode(SubSeq(bytes, 5, Len(bytes)))
    ELSE IF Len(bytes) >= 3 /\ SubSeq(bytes, 1, 3) = <<239, 191, 189>>
    THEN <<"R">> \o TextDecode(SubSeq(bytes, 4, Len(bytes)))
    ELSE <<"R">> \o TextDecode(Tail(bytes))

\* btoa(String.fromCharCode(...bytes)) and
\* Uint8Array.from(atob(s), c => c.charCodeAt(0))
Btoa(bytes) == [b64 |-> bytes]
Atob(s) == s.b64

\* crypto.subtle.encrypt({name: 'AES-GCM', iv}, key, data): ciphertext and
\* authentication tag
AesGcmEncrypt(key, iv, data) == [key |-> key.key, iv |-> iv, data |-> data]

\* crypto.subtle.decrypt({name: 'AES-GCM', iv}, key, data): throws
\* OperationError unless the tag verifies under key and iv
AesGcmDecryptUnauthenticated(key, iv, ct) ==
    [ok |-> TRUE,
     data |-> IF ct.key = key.key /\ ct.iv = iv THEN ct.data ELSE <<>>]
AesGcmDecrypt(key, iv, ct) ==
    IF ct.key = key.key /\ ct.iv = iv
    THEN [ok |-> TRUE, data |-> ct.data]
    ELSE [ok |-> FALSE, data |-> <<>>]

\* crypto.getRandomValues(new Uint8Array(12)): a value no earlier call of
\* the process has drawn (96 random bits, taken as fresh like the bits of a
\* generated key)
GetRandomValues(drawn) == Ivs \ drawn

\* encryptText with the IV it draws, down to the bytes
EncryptTextStaticIv(text, key, iv) ==
    [ciphertext |-> Btoa(AesGcmEncrypt(key, 1, TextEncode(text))),
     iv |-> Btoa(1)]
EncryptTextWithIv(text, key, iv) ==
    [ciphertext |-> Btoa(AesGcmEncrypt(key, iv, TextEncode(text))),
     iv |-> Btoa(iv)]

\* decryptText: no catch, a failed decryption rejects (ok = FALSE)
DecryptTextWithIv(ciphertext, ivBase64, key) ==
    LET decrypted == AesGcmDecrypt(key, Atob(ivBase64), Atob(ciphertext))
    IN  IF decrypted.ok
        THEN [ok |-> TRUE, val |-> TextDecode(decrypted.data)]
        ELSE [ok |-> FALSE, val |-> <<>>]

\* a File: file.arrayBuffer() reads its bytes
File(bytes, type) == [bytes |-> bytes, type |-> type]

\* encryptFile with the IV it draws
EncryptFile(file, key, iv) ==
    [blob |-> File(AesGcmEncrypt(key, iv, file.bytes), ""),
     iv |-> Btoa(iv)]

\* decryptFile: new Blob([decrypted]); no catch
DecryptFile(blob, key, ivBase64) ==
    LET decrypted == AesGcmDecrypt(key, Atob(ivBase64), blob.bytes)
    IN  IF decrypted.ok
        THEN [ok |-> TRUE, val |-> File(decrypted.data, "")]
        ELSE [ok |-> FALSE, val |-> File(<<>>, "")]

\* one application: the function applied last, its input and key, the
\* encryption output, the key of the decryption and the decryption result;
\* the IVs drawn so far and, when the input was encrypted twice (again),
\* the output of the first encryption (prev)
CodecInput(op, input, key) ==
    [op |-> op, input |-> input, key |-> key, out |-> Empty,
     key2 |-> Absent, res |-> Empty,
     drawn |-> {}, again |-> FALSE, prev |-> Empty]
TextInputs ==
    {CodecInput("text", text, key) :
        text \in SeqsUpTo(CodeUnits, MaxTextLen), key \in AesKeys}
FileInputs ==
    {CodecInput("file", File(bytes, "image/png"), key) :
        bytes \in SeqsUpTo(FileBytes, MaxFileLen), key \in AesKeys}
SecretInputs ==
    {CodecInput("secret", S, PubKey(p)) : S \in AesKeys, p \in KeyPairs}

CodecUnchanged ==
    UNCHANGED <<directory, localStorage, vault, chat, messages,
                keyCachePromises, prom, call, dm, nextKey, clears, calls,
                firstKey, unwrapped, keyStore, media, inbox,
                   download, upload>>

ApplyEncryptText ==
    /\ codec.op = "text"
    /\ \E iv \in GetRandomValues(codec.drawn) :
         codec' = [codec EXCEPT
                     !.op = "encryptText",
                     !.drawn = @ \cup {iv},
                     !.out = EncryptTextWithIv(codec.input, codec.key, iv)]
    /\ CodecUnchanged

\* a second encryptText call with the same key
ApplyEncryptTextAgain ==
    /\ codec.op = "encryptText" /\ ~codec.again
    /\ \E iv \in GetRandomValues(codec.drawn) :
         codec' = [codec EXCEPT
                     !.again = TRUE,
                     !.prev = codec.out,
                     !.drawn = @ \cup {iv},
                     !.out = EncryptTextWithIv(codec.input, codec.key, iv)]
    /\ CodecUnchanged

ApplyDecryptText ==
    /\ codec.op = "encryptText"
    /\ \E key \in AesKeys :
         codec' = [codec EXCEPT
                     !.op = "decryptText",
                     !.key2 = key,
                     !.res = DecryptTextWithIv(codec.out.ciphertext,
                                               codec.out.iv, key)]
    /\ CodecUnchanged

ApplyEncryptFile ==
    /\ codec.op = "file"
    /\ \E iv \in GetRandomValues(codec.drawn) :
         codec' = [codec EXCEPT
                     !.op = "encryptFile",
                     !.drawn = @ \cup {iv},
                     !.out = EncryptFile(codec.input, codec.key, iv)]
    /\ CodecUnchanged

\* a second encryptFile call with the same key
ApplyEncryptFileAgain ==
    /\ codec.op = "encryptFile" /\ ~codec.again
    /\ \E iv \in GetRandomValues(codec.drawn) :
         codec' = [codec EXCEPT
                     !.again = TRUE,
                     !.prev = codec.out,
                     !.drawn = @ \cup {iv},
                     !.out = EncryptFile(codec.input, codec.key, iv)]
    /\ CodecUnchanged

ApplyDecryptFile ==
    /\ codec.op = "encryptFile"
    /\ \E key \in AesKeys :
         codec' = [codec EXCEPT
                     !.op = "decryptFile",
                     !.key2 = key,
                     !.res = DecryptFile(codec.out.blob, key, codec.out.iv)]
    /\ CodecUnchanged

ApplyEncryptWithPublicKey ==
    /\ codec.op = "secret"
    /\ codec' = [codec EXCEPT
                   !.op = "encryptWithPublicKey",
                   !.out = EncryptWithPublicKey(codec.input, codec.key)]
    /\ CodecUnchanged

ApplyDecryptWithPrivateKey ==
    /\ codec.op = "encryptWithPublicKey"
    /\ \E p \in KeyPairs :
         codec' = [codec EXCEPT
                     !.op = "decryptWithPrivateKey",
                     !.key2 = PrivKey(p),
                     !.res = DecryptWithPrivateKey(codec.out, PrivKey(p))]
    /\ CodecUnchanged

\* ------------------------------------- the key vault as a map (keyStorage)
ChatIds == {"c1", "c2"}                 \* chat ids with a key in the vault
KeyBytes == {<<0, 255>>, <<255>>}       \* raw key bytes

\* a Uint8Array, and what Array.from makes of it / new Uint8Array of an array
Uint8Array(bytes) == [u8 |-> bytes]
ArrayFrom(u8) == u8.u8

\* the chatKeys object store: for each chatId the record put under it
NoEntry == [present |-> FALSE, key |-> <<>>]
Entry(keyBytes) == [present |-> TRUE, key |-> ArrayFrom(keyBytes)]
EmptyStore == [c \in ChatIds |-> NoEntry]

\* storeKey: store.put replaces the record under chatId
StorePutIfAbsent(db, chatId, keyBytes) ==
    IF db[chatId].present THEN db
    ELSE [db EXCEPT ![chatId] = Entry(keyBytes)]
StorePut(db, chatId, keyBytes) == [db EXCEPT ![chatId] = Entry(keyBytes)]

\* getKey: the bytes under chatId, or null
Null == [null |-> TRUE, u8 |-> <<>>]
GetKey(db, chatId) ==
    IF db[chatId].present
    THEN [null |-> FALSE, u8 |-> Uint8Array(db[chatId].key).u8]
    ELSE Null

\* hasKey: getKey(chatId) !== null
HasKey(db, chatId) == ~GetKey(db, chatId).null

\* deleteKey: store.delete(chatId)
StoreDelete(db, chatId) == [db EXCEPT ![chatId] = NoEntry]

\* exportAllKeys: the object with one base64 property for each record
NoProperty == [own |-> FALSE, val |-> Btoa(<<>>)]
ExportedKeysFirst(db) ==
    [c \in ChatIds |->
        IF db[c].present /\ \A x \in ChatIds : db[x].present => c = x
        THEN [own |-> TRUE, val |-> Btoa(Uint8Array(db[c].key).u8)]
        ELSE NoProperty]
ExportedKeys(db) ==
    [c \in ChatIds |->
        IF db[c].present
        THEN [own |-> TRUE, val |-> Btoa(Uint8Array(db[c].key).u8)]
        ELSE NoProperty]

\* importKeys: one store.put for each property of keysObject
ImportedKeys(db, keysObject) ==
    [c \in ChatIds |->
        IF keysObject[c].own
        THEN Entry(Uint8Array(Atob(keysObject[c].val)))
        ELSE db[c]]

\* the vault of one browser (db), the vault of a browser that only imports
\* (other), the backup object exported last with the vault it was taken
\* from, and the call made last with its result
NoBackup == [taken |-> FALSE, keys |-> ExportedKeys(EmptyStore),
             from |-> EmptyStore]
NoCall == [op |-> "none", chatId |-> "none", key |-> Uint8Array(<<>>),
           result |-> Null, has |-> FALSE]
NewKeyStore ==
    [op |-> "vault", db |-> EmptyStore, other |-> EmptyStore,
     backup |-> NoBackup, last |-> NoCall]

VaultUnchanged ==
    UNCHANGED <<directory, localStorage, vault, chat, messages,
                keyCachePromises, prom, call, dm, nextKey, clears, calls,
                firstKey, unwrapped, codec, media, inbox,
                   download, upload>>

CallStoreKey ==
    /\ keyStore.op = "vault"
    /\ \E c \in ChatIds : \E k \in KeyBytes :
         keyStore' = [keyStore EXCEPT
             !.db = StorePut(keyStore.db, c, Uint8Array(k)),
             !.last = [NoCall EXCEPT !.op = "storeKey", !.chatId = c,
                                     !.key = Uint8Array(k)]]
    /\ VaultUnchanged

CallGetKey ==
    /\ keyStore.op = "vault"
    /\ \E c \in ChatIds :
         keyStore' = [keyStore EXCEPT
             !.last = [NoCall EXCEPT !.op = "getKey", !.chatId = c,
                                     !.result = GetKey(keyStore.db, c)]]
    /\ VaultUnchanged

CallHasKey ==
    /\ keyStore.op = "vault"
    /\ \E c \in ChatIds :
         keyStore' = [keyStore EXCEPT
             !.last = [NoCall EXCEPT !.op = "hasKey", !.chatId = c,
                                     !.has = HasKey(keyStore.db, c)]]
    /\ VaultUnchanged

CallDeleteKey ==
    /\ keyStore.op = "vault"
    /\ \E c \in ChatIds :
         keyStore' = [keyStore EXCEPT
             !.db = StoreDelete(keyStore.db, c),
             !.last = [NoCall EXCEPT !.op = "deleteKey", !.chatId = c]]
    /\ VaultUnchanged

CallExportAllKeys ==
    /\ keyStore.op = "vault"
    /\ keyStore' = [keyStore EXCEPT
           !.backup = [taken |-> TRUE, keys |-> ExportedKeys(keyStore.db),
                       from |-> keyStore.db],
           !.last = [NoCall EXCEPT !.op = "exportAllKeys"]]
    /\ VaultUnchanged

\* importKeys(keys) of KeyBackup in the other browser
CallImportKeys ==
    /\ keyStore.op = "vault"
    /\ keyStore.backup.taken
    /\ keyStore' = [keyStore EXCEPT
           !.other = ImportedKeys(keyStore.other, keyStore.backup.keys),
           !.last = [NoCall EXCEPT !.op = "importKeys"]]
    /\ VaultUnchanged

\* clearAllKeys in the other browser: store.clear()
CallClearAllKeys ==
    /\ keyStore.op = "vault"
    /\ keyStore.other # EmptyStore
    /\ keyStore' = [keyStore EXCEPT
           !.other = EmptyStore,
           !.last = [NoCall EXCEPT !.op = "clearAllKeys"]]
    /\ VaultUnchanged

\* ------------------------------------- media cache (mediaCacheService.js)
MessageIds == {"m1", "m2", "m3", "m4"}      \* message.id of media messages

\* a Map in insertion order: a sequence of entries with distinct ids
MapHas(map, id) == \E i \in 1..Len(map) : map[i].id = id
MapGet(map, id) == map[CHOOSE i \in 1..Len(map) : map[i].id = id]
MapDelete(map, id) == SelectSeq(map, LAMBDA e : e.id # id)
\* set keeps the position of an id that is present; first is the blob URL
\* counter at the time the id was inserted
MapSet(map, id, blobUrl, mimeType) ==
    IF MapHas(map, id)
    THEN [i \in 1..Len(map) |->
            IF map[i].id = id
            THEN [id |-> id, blobUrl |-> blobUrl, mimeType |-> mimeType,
                  first |-> map[i].first]
            ELSE map[i]]
    ELSE Append(map, [id |-> id, blobUrl |-> blobUrl, mimeType |-> mimeType,
                      first |-> blobUrl])

\* the MIME types of media files; "" is a missing type
MimeTypes == {"image/png", "audio/webm"}
NoMimeType == ""

\* getCachedMedia: a new object with the blob URL and the MIME type of the
\* entry, or null
NotCached == [null |-> TRUE, blobUrl |-> 0, mimeType |-> NoMimeType]
GetCachedMedia(map, id) ==
    IF MapHas(map, id)
    THEN [null |-> FALSE, blobUrl |-> MapGet(map, id).blobUrl,
          mimeType |-> MapGet(map, id).mimeType]
    ELSE NotCached

\* cacheMedia, lines 42-50: with the cache full the first key is revoked
\* and deleted
EvictNewest(m) ==
    IF Len(m.cache) >= MAX_CACHE_SIZE
    THEN [m EXCEPT !.cache = SubSeq(m.cache, 1, Len(m.cache) - 1),
                   !.revoked = @ \cup {m.cache[Len(m.cache)].blobUrl}]
    ELSE m
EvictWhenOver(m) ==
    IF Len(m.cache) > MAX_CACHE_SIZE
    THEN [m EXCEPT !.cache = Tail(m.cache),
                   !.revoked = @ \cup {Head(m.cache).blobUrl}]
    ELSE m
Evict(m) ==
    IF Len(m.cache) >= MAX_CACHE_SIZE
    THEN [m EXCEPT !.cache = Tail(m.cache),
                   !.revoked = @ \cup {Head(m.cache).blobUrl}]
    ELSE m

\* the cache of a process that just started, a user signed in
NewMedia ==
    [op |-> "cache", cache |-> <<>>, revoked |-> {}, nextUrl |-> 1,
     signedIn |-> TRUE]

MediaUnchanged ==
    UNCHANGED <<directory, localStorage, vault, chat, messages,
                keyCachePromises, prom, call, dm, nextKey, clears, calls,
                firstKey, unwrapped, codec, keyStore, inbox,
                   download, upload>>

\* cacheMedia(messageId, blobUrl, mimeType) on the cache m
CachedMedia(m, messageId, blobUrl, mimeType) ==
    LET e == Evict(m) IN
    [e EXCEPT !.cache = MapSet(e.cache, messageId, blobUrl, mimeType)]

\* URL.createObjectURL and cacheMedia, the end of getDecryptedMediaUrl
CacheMedia ==
    /\ media.op = "cache"
    /\ media.signedIn
    /\ media.nextUrl <= MaxUrls
    /\ \E id \in MessageIds : \E mimeType \in MimeTypes :
         media' = [CachedMedia(media, id, media.nextUrl, mimeType)
                      EXCEPT !.nextUrl = @ + 1]
    /\ MediaUnchanged

RemoveCachedMedia ==
    /\ media.op = "cache"
    /\ \E id \in MessageIds :
         /\ MapHas(media.cache, id)
         /\ media' = [media EXCEPT
                !.revoked = @ \cup {MapGet(media.cache, id).blobUrl},
                !.cache = MapDelete(media.cache, id)]
    /\ MediaUnchanged

ClearMediaCache ==
    /\ media.op = "cache"
    /\ media.cache # <<>>
    /\ media' = [media EXCEPT
           !.revoked = @ \cup {media.cache[i].blobUrl :
                                  i \in 1..Len(media.cache)},
           !.cache = <<>>]
    /\ MediaUnchanged

\* handleLogout: signOut(auth); onAuthStateChanged then sets the user null
HandleLogout ==
    /\ media.op = "cache"
    /\ media.signedIn
    /\ media' = [media EXCEPT !.signedIn = FALSE]
    /\ MediaUnchanged

\* handleGoogleLogin in the same process
HandleLogin ==
    /\ media.op = "cache"
    /\ ~media.signedIn
    /\ media' = [media EXCEPT !.signedIn = TRUE]
    /\ MediaUnchanged

\* --------------------- receiving messages (subscribeToChatMessages)
\* a message document: encryptedText and textIv as sendChatMessage writes
\* them, or the text of a message of the unencrypted scheme
EncryptedDoc(text, key, iv) ==
    [encrypted |-> TRUE,
     encryptedText |-> EncryptTextWithIv(text, key, iv).ciphertext,
     textIv |-> EncryptTextWithIv(text, key, iv).iv,
     text |-> <<>>]
LegacyDoc(text) ==
    [encrypted |-> FALSE,
     encryptedText |-> Btoa(AesGcmEncrypt(RawKey(0), 0, <<>>)),
     textIv |-> Btoa(0),
     text |-> text]
Docs ==
    {EncryptedDoc(<<"A">>, key, 1) : key \in AesKeys} \cup {LegacyDoc(<<"A">>)}

\* the text shown for a message that does not decrypt
DecryptionFailed == <<"[Decryption failed]">>

\* the callback of snapshot.docs.map for one document (lines 41-72); ok is
\* FALSE when the promise of the document rejects
DecryptDocNoCatch(data, chatKey) ==
    LET decryptedText ==
            DecryptTextWithIv(data.encryptedText, data.textIv, chatKey)
    IN  IF ~data.encrypted
        THEN [ok |-> TRUE, text |-> data.text, encrypted |-> FALSE,
              decryptionError |-> FALSE]
        ELSE [ok |-> decryptedText.ok, text |-> decryptedText.val,
              encrypted |-> TRUE, decryptionError |-> FALSE]
DecryptDoc(data, chatKey) ==
    LET decryptedText ==
            DecryptTextWithIv(data.encryptedText, data.textIv, chatKey)
    IN  IF ~data.encrypted
        THEN [ok |-> TRUE, text |-> data.text, encrypted |-> FALSE,
              decryptionError |-> FALSE]
        ELSE IF decryptedText.ok
        THEN [ok |-> TRUE, text |-> decryptedText.val, encrypted |-> TRUE,
              decryptionError |-> FALSE]
        ELSE [ok |-> TRUE, text |-> DecryptionFailed, encrypted |-> FALSE,
              decryptionError |-> TRUE]

\* Promise.all over the documents of the snapshot
DecryptedMessages(docs, chatKey) ==
    [i \in 1..Len(docs) |-> DecryptDoc(docs[i], chatKey)]

\* the handler of one snapshot: its documents, where the handler is, the
\* key getChatKey resolved with, what onMessages got, whether onError ran
NewInbox(docs) ==
    [op |-> "snapshot", docs |-> docs, pc |-> "getChatKey",
     chatKey |-> Absent, onMessages |-> FALSE, messages |-> <<>>,
     onError |-> FALSE]

InboxUnchanged ==
    UNCHANGED <<directory, localStorage, vault, chat, messages,
                keyCachePromises, prom, call, dm, nextKey, clears, calls,
                firstKey, unwrapped, codec, keyStore, media,
                   download, upload>>

\* await getChatKey(chatId, userEmail) resolves
SnapshotKeyResolved ==
    /\ inbox.op = "snapshot" /\ inbox.pc = "getChatKey"
    /\ \E key \in AesKeys :
         inbox' = [inbox EXCEPT !.pc = "decrypt", !.chatKey = key]
    /\ InboxUnchanged

\* await getChatKey(chatId, userEmail) rejects: the outer catch (line 76)
SnapshotKeyRejected ==
    /\ inbox.op = "snapshot" /\ inbox.pc = "getChatKey"
    /\ inbox' = [inbox EXCEPT !.pc = "done", !.onError = TRUE]
    /\ InboxUnchanged

\* Promise.all settles: onMessages(decryptedMessages), or the outer catch
SnapshotDecrypted ==
    /\ inbox.op = "snapshot" /\ inbox.pc = "decrypt"
    /\ LET decrypted == DecryptedMessages(inbox.docs, inbox.chatKey) IN
       IF \A i \in 1..Len(decrypted) : decrypted[i].ok
       THEN inbox' = [inbox EXCEPT !.pc = "done", !.onMessages = TRUE,
                                   !.messages = decrypted]
       ELSE inbox' = [inbox EXCEPT !.pc = "done", !.onError = TRUE]
    /\ InboxUnchanged

\* ------------------------ media download (mediaDownloadService.js)
\* inferMimeType(filePath): by the extension of the path
InferMimeType(extension) ==
    IF extension = "png" THEN "image/png" ELSE "application/octet-stream"

\* the media field of a message document and the blob stored at its path:
\* publicId marks the Cloudinary format; a message of the encrypted format
\* has filePath and iv (or lacks them, a malformed document); the blob is
\* what encryptFile made of the file under key, or a blob altered in the
\* store (its tag verifies under no key)
MediaContent(publicId, complete, extension, mimeType, key, tampered) ==
    [publicId |-> publicId, complete |-> complete,
     extension |-> extension, mimeType |-> mimeType,
     iv |-> EncryptFile(File(<<255>>, "image/png"), key, 1).iv,
     blob |-> IF tampered
              THEN File(AesGcmEncrypt(RawKey(0), 1, <<255>>), "")
              ELSE EncryptFile(File(<<255>>, "image/png"), key, 1).blob]
MediaContents ==
    {MediaContent(publicId, complete, extension, mimeType, key, tampered) :
        publicId \in BOOLEAN, complete \in BOOLEAN,
        extension \in {"enc", "png"},
        mimeType \in {"image/png", NoMimeType},
        key \in AesKeys, tampered \in BOOLEAN}
DownloadIds == {"m1", "m2", "m3"}

\* what a getDecryptedMediaUrl call returns or throws
NoResult == [ok |-> FALSE, blobUrl |-> 0, mimeType |-> NoMimeType,
             error |-> "none"]
Returned(blobUrl, mimeType) ==
    [ok |-> TRUE, blobUrl |-> blobUrl, mimeType |-> mimeType,
     error |-> "none"]
Thrown(error) == [NoResult EXCEPT !.error = error]

\* one call: the message it is about, where the call is, the key getChatKey
\* gave, the getChatKey calls it made, the fetches it tried and those that
\* failed (fetch or decryption), its outcome, and the cache as the call
\* found it
NewDownload(content) ==
    [op |-> "download", content |-> content, id |-> "none", pc |-> "idle",
     chatKey |-> Absent, keyCalls |-> 0, tried |-> {}, failed |-> {},
     result |-> NoResult, before |-> <<>>]

DownloadUnchanged ==
    UNCHANGED <<directory, localStorage, vault, chat, messages,
                keyCachePromises, prom, call, dm, nextKey, clears, calls,
                firstKey, unwrapped, codec, keyStore, inbox, upload>>

\* lines 143-152 without the decryption test: the result is cached whatever
\* decryptFile did
FinishDownloadUnchecked(step, fetched, decrypted) ==
    LET mimeType == IF download.content.mimeType # NoMimeType
                    THEN download.content.mimeType
                    ELSE InferMimeType(download.content.extension)
        blobUrl == media.nextUrl
    IN  /\ media' = [CachedMedia(media, download.id, blobUrl, mimeType)
                        EXCEPT !.nextUrl = @ + 1]
        /\ download' = [download EXCEPT
               !.pc = "done",
               !.tried = @ \cup {step},
               !.failed = IF fetched /\ decrypted.ok THEN @
                          ELSE @ \cup {step},
               !.result = Returned(blobUrl, mimeType)]

\* lines 143-152: the MIME type, new Blob, URL.createObjectURL, cacheMedia
\* and the return, reached when a fetch and its decryption succeeded
FinishDownload(step, fetched, decrypted) ==
    LET mimeType == IF download.content.mimeType # NoMimeType
                    THEN download.content.mimeType
                    ELSE InferMimeType(download.content.extension)
        blobUrl == media.nextUrl
    IN  /\ fetched /\ decrypted.ok
        /\ media' = [CachedMedia(media, download.id, blobUrl, mimeType)
                        EXCEPT !.nextUrl = @ + 1]
        /\ download' = [download EXCEPT
               !.pc = "done",
               !.tried = @ \cup {step},
               !.result = Returned(blobUrl, mimeType)]

\* getDecryptedMediaUrl up to its first await without the test of line 95
CallGetDecryptedMediaUrlNoLegacyTest ==
    /\ download.op = "download" /\ download.pc \in {"idle", "done"}
    /\ media.nextUrl <= MaxUrls
    /\ \E id \in DownloadIds :
         LET new == [NewDownload(download.content) EXCEPT
                        !.id = id, !.before = media.cache]
             cached == GetCachedMedia(media.cache, id)
         IN  download' =
               IF ~cached.null
               THEN [new EXCEPT
                       !.pc = "done",
                       !.result = Returned(cached.blobUrl, cached.mimeType)]
               ELSE IF ~download.content.complete
               THEN [new EXCEPT !.pc = "done", !.result = Thrown("invalid")]
               ELSE [new EXCEPT !.pc = "getChatKey", !.keyCalls = 1]
    /\ UNCHANGED media
    /\ DownloadUnchanged

\* getDecryptedMediaUrl up to its first await without the cache test
CallGetDecryptedMediaUrlNoCache ==
    /\ download.op = "download" /\ download.pc \in {"idle", "done"}
    /\ media.nextUrl <= MaxUrls
    /\ \E id \in DownloadIds :
         LET new == [NewDownload(download.content) EXCEPT
                        !.id = id, !.before = media.cache]
         IN  download' =
               IF download.content.publicId
               THEN [new EXCEPT !.pc = "done", !.result = Thrown("legacy")]
               ELSE IF ~download.content.complete
               THEN [new EXCEPT !.pc = "done", !.result = Thrown("invalid")]
               ELSE [new EXCEPT !.pc = "getChatKey", !.keyCalls = 1]
    /\ UNCHANGED media
    /\ DownloadUnchanged

\* getDecryptedMediaUrl up to its first await (lines 87-104): the cache
\* test, the format tests, and the getChatKey call
CallGetDecryptedMediaUrl ==
    /\ download.op = "download" /\ download.pc \in {"idle", "done"}
    /\ media.nextUrl <= MaxUrls
    /\ \E id \in DownloadIds :
         LET new == [NewDownload(download.content) EXCEPT
                        !.id = id, !.before = media.cache]
             cached == GetCachedMedia(media.cache, id)
         IN  download' =
               IF ~cached.null
               THEN [new EXCEPT
                       !.pc = "done",
                       !.result = Returned(cached.blobUrl, cached.mimeType)]
               ELSE IF download.content.publicId
               THEN [new EXCEPT !.pc = "done", !.result = Thrown("legacy")]
               ELSE IF ~download.content.complete
               THEN [new EXCEPT !.pc = "done", !.result = Thrown("invalid")]
               ELSE [new EXCEPT !.pc = "getChatKey", !.keyCalls = 1]
    /\ UNCHANGED media
    /\ DownloadUnchanged

\* await getChatKey(chatId, userEmail) resolves (line 104)
DownloadKeyResolved ==
    /\ download.op = "download" /\ download.pc = "getChatKey"
    /\ \E key \in AesKeys :
         download' = [download EXCEPT !.pc = "getBlob", !.chatKey = key]
    /\ UNCHANGED media
    /\ DownloadUnchanged

\* await getChatKey rejects: no catch, the call rejects with its error
DownloadKeyRejected ==
    /\ download.op = "download" /\ download.pc = "getChatKey"
    /\ download' = [download EXCEPT !.pc = "done",
                                    !.result = Thrown("getChatKey")]
    /\ UNCHANGED media
    /\ DownloadUnchanged

\* the direct fetch without the fallback: its error ends the call
GetBlobNoFallback ==
    /\ download.op = "download" /\ download.pc = "getBlob"
    /\ \E fetched \in BOOLEAN :
         LET decrypted == DecryptFile(download.content.blob,
                                      download.chatKey, download.content.iv)
         IN  \/ FinishDownload("getBlob", fetched, decrypted)
             \/ /\ ~(fetched /\ decrypted.ok)
                /\ download' = [download EXCEPT
                       !.pc = "done",
                       !.tried = @ \cup {"getBlob"},
                       !.failed = @ \cup {"getBlob"},
                       !.result = Thrown("download")]
                /\ UNCHANGED media
    /\ DownloadUnchanged

\* the try block of lines 111-116: getBlob and decryptFile; any error goes
\* to the catch of line 117
GetBlob ==
    /\ download.op = "download" /\ download.pc = "getBlob"
    /\ \E fetched \in BOOLEAN :
         LET decrypted == DecryptFile(download.content.blob,
                                      download.chatKey, download.content.iv)
         IN  \/ FinishDownload("getBlob", fetched, decrypted)
             \/ /\ ~(fetched /\ decrypted.ok)
                /\ download' = [download EXCEPT
                       !.pc = "fallback",
                       !.tried = @ \cup {"getBlob"},
                       !.failed = @ \cup {"getBlob"}]
                /\ UNCHANGED media
    /\ DownloadUnchanged

\* the fallback with the result cached before it is known to decrypt
FetchDownloadUrlUnchecked ==
    /\ download.op = "download" /\ download.pc = "fallback"
    /\ \E fetched \in BOOLEAN :
         LET decrypted == DecryptFile(download.content.blob,
                                      download.chatKey, download.content.iv)
         IN  FinishDownloadUnchecked("fetch", fetched, decrypted)
    /\ DownloadUnchanged

\* the fallback of lines 121-140: getDownloadURL, fetch, decryptFile; any
\* error is replaced by 'Failed to download media'
FetchDownloadUrl ==
    /\ download.op = "download" /\ download.pc = "fallback"
    /\ \E fetched \in BOOLEAN :
         LET decrypted == DecryptFile(download.content.blob,
                                      download.chatKey, download.content.iv)
         IN  \/ FinishDownload("fetch", fetched, decrypted)
             \/ /\ ~(fetched /\ decrypted.ok)
                /\ download' = [download EXCEPT
                       !.pc = "done",
                       !.tried = @ \cup {"fetch"},
                       !.failed = @ \cup {"fetch"},
                       !.result = Thrown("download")]
                /\ UNCHANGED media
    /\ DownloadUnchanged

\* ----------------------------- media upload (mediaUploadService.js)
\* file.type of the files and blobs a page hands to uploadMedia ("" for a
\* blob without a type), and file.size around the limit of 5 MB
FileTypes == {"image/png", "audio/webm", ""}
FileSizes == {5 * 1024 * 1024, 5 * 1024 * 1024 + 1}
MediaTypes == {"image", "audio", "video"}

\* file.type.startsWith('image/')
StartsWithImage(type) == type = "image/png"

\* the validation of lines 216-227: the error it throws, or "none"
Validation(file, type) ==
    IF type = "image"
    THEN IF ~StartsWithImage(file.type) THEN "invalid type"
         ELSE IF file.size > 5 * 1024 * 1024 THEN "too large"
         ELSE "none"
    ELSE IF type = "audio"
    THEN IF file.size > 5 * 1024 * 1024 THEN "too large" ELSE "none"
    ELSE "none"

\* chats/{chatId}/{crypto.randomUUID()}.enc
FilePath(uuid) == [uuid |-> uuid, extension |-> "enc"]

\* the message document of lines 245-262
MediaRecord(type, filePath, iv, file) ==
    [type |-> type, text |-> <<>>,
     media |-> [filePath |-> filePath, iv |-> iv,
                mimeType |-> IF file.type # "" THEN file.type
                             ELSE "application/octet-stream"]]

\* one uploadMedia call: its arguments, where it is, the key and the
\* getChatKey calls it made, the encrypted blob and its path, the error it
\* threw, and what Storage and the messages collection hold
NewUpload(file, type) ==
    [op |-> "upload", file |-> file, type |-> type, pc |-> "idle",
     chatKey |-> Absent, keyCalls |-> 0,
     encrypted |-> EncryptFile(File(<<>>, ""), RawKey(0), 0),
     filePath |-> FilePath(0), error |-> "none",
     storage |-> {}, records |-> {}]
UploadInputs ==
    {NewUpload([bytes |-> bytes, type |-> fileType, size |-> size], type) :
        bytes \in SeqsUpTo(FileBytes, MaxFileLen), fileType \in FileTypes,
        size \in FileSizes, type \in MediaTypes}

UploadUnchanged ==
    UNCHANGED <<directory, localStorage, vault, chat, messages,
                keyCachePromises, prom, call, dm, nextKey, clears, calls,
                firstKey, unwrapped, codec, keyStore, media, inbox,
                download>>

\* uploadMedia up to its first await (lines 214-230): the validation and
\* the getChatKey call
CallUploadMedia ==
    /\ upload.op = "upload" /\ upload.pc = "idle"
    /\ upload' =
         IF Validation(upload.file, upload.type) # "none"
         THEN [upload EXCEPT !.pc = "done",
                             !.error = Validation(upload.file, upload.type)]
         ELSE [upload EXCEPT !.pc = "getChatKey", !.keyCalls = 1]
    /\ UploadUnchanged

\* await getChatKey(chatId, user.email) resolves; encryptFile and the path
\* (lines 230-237)
UploadKeyResolved ==
    /\ upload.op = "upload" /\ upload.pc = "getChatKey"
    /\ \E key \in AesKeys : \E iv \in GetRandomValues({}) : \E uuid \in {1, 2} :
         upload' = [upload EXCEPT
             !.pc = "uploadBytes",
             !.chatKey = key,
             !.encrypted = EncryptFile(File(upload.file.bytes,
                                            upload.file.type), key, iv),
             !.filePath = FilePath(uuid)]
    /\ UploadUnchanged

\* await getChatKey rejects: no catch
UploadKeyRejected ==
    /\ upload.op = "upload" /\ upload.pc = "getChatKey"
    /\ upload' = [upload EXCEPT !.pc = "done", !.error = "getChatKey"]
    /\ UploadUnchanged

\* uploadBytes whose rejection is not noticed
UploadBytesUnchecked ==
    /\ upload.op = "upload" /\ upload.pc = "uploadBytes"
    /\ \E stored \in BOOLEAN :
         upload' = [upload EXCEPT
             !.pc = "addDoc",
             !.storage = IF stored
                         THEN @ \cup {[filePath |-> upload.filePath,
                                       blob |-> upload.encrypted.blob]}
                         ELSE @]
    /\ UploadUnchanged

\* await uploadBytes(storageRef, blob) (line 241): its rejection ends the
\* call
UploadBytes ==
    /\ upload.op = "upload" /\ upload.pc = "uploadBytes"
    /\ \E stored \in BOOLEAN :
         upload' = IF stored
                   THEN [upload EXCEPT
                           !.pc = "addDoc",
                           !.storage = @ \cup
                               {[filePath |-> upload.filePath,
                                 blob |-> upload.encrypted.blob]}]
                   ELSE [upload EXCEPT !.pc = "done", !.error = "upload"]
    /\ UploadUnchanged

\* await addDoc(messagesRef, {...}) (lines 245-262)
AddMediaDoc ==
    /\ upload.op = "upload" /\ upload.pc = "addDoc"
    /\ \E added \in BOOLEAN :
         upload' = IF added
                   THEN [upload EXCEPT
                           !.pc = "preview",
                           !.records = @ \cup
                               {MediaRecord(upload.type, upload.filePath,
                                            upload.encrypted.iv,
                                            upload.file)}]
                   ELSE [upload EXCEPT !.pc = "done", !.error = "addDoc"]
    /\ UploadUnchanged

\* the chat preview update after the message (from line 264 on)
UpdateMediaPreview ==
    /\ upload.op = "upload" /\ upload.pc = "preview"
    /\ \E updated \in BOOLEAN :
         upload' = [upload EXCEPT
                      !.pc = "done",
                      !.error = IF updated THEN "none" ELSE "preview"]
    /\ UploadUnchanged

\* ------------------------------------------------------- the specification
\* logins and chat creation on the devices D
Setup(D) ==
    \/ \E d \in D : InitializeUserKeyPair(d)
    \/ \E d \in D : ReuploadPublicKey(d)
    \/ \E d \in D : GetOrCreateDmChat(d)
    \/ \E d \in D : CreateDmChat(d)

\* the asynchronous part of key resolution on the devices D, device d
\* running the call sites C[d]
Resolution(D, C) ==
    \/ \E d \in D : \E c \in C[d] : ResolveChatKey(d, c)
    \/ \E d \in D : \E c \in C[d] : GenerateChatKey(d, c)
    \/ \E d \in D : \E c \in C[d] : ShareKeyWithParticipants(d, c)
    \/ \E d \in D : \E c \in C[d] : MarkE2eeEnabled(d, c)
    \/ \E d \in D : ExpireCache(d)
    \/ \E d \in D : \E c \in C[d] : CallFailed(d, c)

\* a bounded number of getChatKey calls
Core(D, C) ==
    \/ Setup(D)
    \/ \E d \in D : \E c \in C[d] : CountedGetChatKey(d, c)
    \/ Resolution(D, C)

ReceiveOnly == [d \in Devices |-> {"recv"}]
SendOnly == [d \in Devices |-> {"send"}]
SendAndReceive == [d \in Devices |-> {"send", "recv"}]

\* a on d1 and b on d2, each sending text messages
Next ==
    \/ Core({"d1", "d2"}, SendOnly)
    \/ \E d \in {"d1", "d2"} : SendChatMessage(d)
    \/ \E d \in {"d1", "d2"} : ClearAllKeys(d)

Spec == Init /\ [][Next]_vars

\* one process, d1, whose page sends and receives at the same time
NextCoalesce ==
    \/ Core({"d1"}, SendAndReceive)
    \/ SendChatMessage("d1")
    \/ DeliverMessages("d1")
    \/ ClearAllKeys("d1")

SpecCoalesce == Init /\ [][NextCoalesce]_vars

\* a signed in on two devices, d1 and d3
NextDevices ==
    \/ Core({"d1", "d3"}, SendOnly)
    \/ \E d \in {"d1", "d3"} : SendChatMessage(d)
    \/ \E d \in {"d1", "d3"} : ClearAllKeys(d)

SpecDevices == Init /\ [][NextDevices]_vars

\* a on d1 and b on d2 keep the chat open: every snapshot of the message
\* subscription calls getChatKey, as often as they like
FairNext ==
    \/ Setup({"d1", "d2"})
    \/ \E d \in {"d1", "d2"} : GetChatKey(d, "recv") /\ UNCHANGED calls
    \/ Resolution({"d1", "d2"}, ReceiveOnly)
    \/ \E d \in {"d1", "d2"} : DeliverMessages(d)

\* every started asynchronous step completes, every timer fires, and every
\* device goes on accessing the chat
Fairness ==
    \A d \in {"d1", "d2"} :
        /\ WF_vars(CreateDmChat(d))
        /\ WF_vars(GetChatKey(d, "recv") /\ UNCHANGED calls)
        /\ WF_vars(ResolveChatKey(d, "recv"))
        /\ WF_vars(GenerateChatKey(d, "recv"))
        /\ WF_vars(ShareKeyWithParticipants(d, "recv"))
        /\ WF_vars(MarkE2eeEnabled(d, "recv"))
        /\ WF_vars(ExpireCache(d))
        /\ WF_vars(DeliverMessages(d))
        /\ WF_vars(CallFailed(d, "recv"))

FairSpec == Init /\ [][FairNext]_vars /\ Fairness

\* a on d1 and b on d2 with a vault whose writes can fail in step 4
NextStoreFails ==
    \/ Core({"d1", "d2"}, SendOnly)
    \/ \E d \in {"d1", "d2"} : GenerateChatKeyStoreFails(d, "send")

SpecStoreFails == Init /\ [][NextStoreFails]_vars

\* a on d1 and b on d2, whose pages also send media messages through
\* sendMediaMessage
NextNoEmail ==
    \/ Core({"d1", "d2"}, SendOnly)
    \/ \E d \in {"d1", "d2"} : CountedGetChatKeyNoEmail(d, "send")

SpecNoEmail == Init /\ [][NextNoEmail]_vars

\* the codec functions applied to the inputs Init draws
CodecInit ==
    /\ InitState
    /\ keyStore = NoKeyStore /\ media = NoMedia /\ inbox = NoInbox
    /\ download = NoDownload /\ upload = NoUpload
    /\ \/ codec \in TextInputs
       \/ codec \in FileInputs
       \/ codec \in SecretInputs
NextCodec ==
    \/ ApplyEncryptText
    \/ ApplyEncryptTextAgain
    \/ ApplyDecryptText
    \/ ApplyEncryptFile
    \/ ApplyEncryptFileAgain
    \/ ApplyDecryptFile
    \/ ApplyEncryptWithPublicKey
    \/ ApplyDecryptWithPrivateKey
SpecCodec == CodecInit /\ [][NextCodec]_vars

\* the vault operations in any order
VaultInit ==
    /\ InitState
    /\ codec = NoCodec /\ media = NoMedia /\ inbox = NoInbox
    /\ download = NoDownload /\ upload = NoUpload
    /\ keyStore = NewKeyStore
NextVault ==
    \/ CallStoreKey
    \/ CallGetKey
    \/ CallHasKey
    \/ CallDeleteKey
    \/ CallExportAllKeys
    \/ CallImportKeys
    \/ CallClearAllKeys
SpecVault == VaultInit /\ [][NextVault]_vars

\* the media cache of one process
MediaInit ==
    /\ InitState
    /\ codec = NoCodec /\ keyStore = NoKeyStore /\ inbox = NoInbox
    /\ download = NoDownload /\ upload = NoUpload
    /\ media = NewMedia
NextMedia ==
    \/ CacheMedia
    \/ RemoveCachedMedia
    \/ ClearMediaCache
    \/ HandleLogout
    \/ HandleLogin
SpecMedia == MediaInit /\ [][NextMedia]_vars

\* the snapshot handler of subscribeToChatMessages on the snapshots Init
\* draws
InboxInit ==
    /\ InitState
    /\ codec = NoCodec /\ keyStore = NoKeyStore /\ media = NoMedia
    /\ download = NoDownload /\ upload = NoUpload
    /\ \E docs \in SeqsUpTo(Docs, MaxDocs) : inbox = NewInbox(docs)
NextInbox ==
    \/ SnapshotKeyResolved
    \/ SnapshotKeyRejected
    \/ SnapshotDecrypted
SpecInbox == InboxInit /\ [][NextInbox]_vars

\* getDecryptedMediaUrl calls of one process, one after the other, on the
\* message Init draws
DownloadInit ==
    /\ InitState
    /\ codec = NoCodec /\ keyStore = NoKeyStore /\ inbox = NoInbox
    /\ upload = NoUpload
    /\ media = NewMedia
    /\ \E content \in MediaContents : download = NewDownload(content)
NextDownload ==
    \/ CallGetDecryptedMediaUrl
    \/ DownloadKeyResolved
    \/ DownloadKeyRejected
    \/ GetBlob
    \/ FetchDownloadUrl
SpecDownload == DownloadInit /\ [][NextDownload]_vars

\* one uploadMedia call on the arguments Init draws
UploadInit ==
    /\ InitState
    /\ codec = NoCodec /\ keyStore = NoKeyStore /\ inbox = NoInbox
    /\ media = NoMedia /\ download = NoDownload
    /\ upload \in UploadInputs
NextUpload ==
    \/ CallUploadMedia
    \/ UploadKeyResolved
    \/ UploadKeyRejected
    \/ UploadBytes
    \/ AddMediaDoc
    \/ UpdateMediaPreview
SpecUpload == UploadInit /\ [][NextUpload]_vars

\* ------------------------------------------------------------- properties
\* the step in which the resolution of (d, c) reads the chat document
Resolves(d, c) == prom[d][c].pc = "read" /\ prom'[d][c].pc # "read"

\* C1: two getChatKey calls of one process that run at the same time await
\* the same resolution and get the same outcome and the same key; when they
\* are the first two calls of the chat and the key was generated, one key
\* was generated
C1_Coalesced ==
    \A d \in Devices : \A c \in Callers : \A x \in call[d][c].with :
        /\ call[d][c].p = call[d][x].p
        /\ call[d][c].st = call[d][x].st
        /\ call[d][c].key = call[d][x].key
        /\ (call[d][c].via = "gen" /\ calls = 2) => nextKey = 2

C1_Witness ==
    \E c \in Callers : \E x \in call["d1"][c].with :
        /\ call["d1"][c].st = "have" /\ call["d1"][x].st = "have"
        /\ call["d1"][c].via = "gen" /\ call["d1"][c].key = RawKey(1)
        /\ vault["d1"] = RawKey(1)

\* C2: a vault entry that the step-2 rule does not call orphaned decrypts
\* every stored message of the chat
C2_VaultDecryptsAll ==
    \A d \in Devices :
        (vault[d].t = "raw" /\ ~IsOrphaned(chat, DevUser(d))) =>
            \A m \in messages :
                DecryptText(m.encryptedText, vault[d]).t = "plain"

\* C3: no field of a message document or of the chat document holds the
\* plaintext of a message
C3_NoPlaintextStored ==
    /\ chat.lastMessage.t # "plain"
    /\ \A m \in messages : m.text.t # "plain" /\ m.encryptedText.t = "ct"

\* C4: every value written to users/{email}.publicKey is a public key,
\* every value written to keyPackages is a wrapped key or nothing, no
\* operation writes encryptionKey, and createKeyPackage yields a wrapped key
\* or throws
C4_WritesOnlyPublic ==
    [][/\ \A u \in Users :
            directory'[u] # directory[u] => directory'[u].t = "pub"
       /\ \A u \in Users :
            chat'.keyPackages[u] # chat.keyPackages[u] =>
                chat'.keyPackages[u].t \in {"wrapped", "absent"}
       /\ chat'.encryptionKey # chat.encryptionKey =>
            chat'.encryptionKey.t = "absent"
       /\ \A d \in Devices : \A u \in Users :
            CreateKeyPackage(d, u)'.t \in {"wrapped", "error"}]_vars

C4_Witness ==
    /\ chat.e2eeEnabled
    /\ \A u \in Users :
         directory[u].t = "pub" /\ chat.keyPackages[u].t = "wrapped"
    /\ \E d \in Devices : CreateKeyPackage(d, "b").t = "wrapped"

\* C5: a resolution that reads a package for the caller which unwraps under
\* the caller's private key resolves to the package's key and leaves it in
\* the vault, whatever the vault held, and generates no key
C5_PackageFirst ==
    [][\A d \in Devices : \A c \in Callers :
        (/\ Resolves(d, c)
         /\ chat.exists
         /\ UnwrapMyPackage(chat, DevUser(d), d).t = "raw") =>
            /\ prom'[d][c].pc = "resolved"
            /\ prom'[d][c].rawKey = RawKey(chat.keyPackages[DevUser(d)].key)
            /\ call'[d][c].st = "have"
            /\ call'[d][c].key = RawKey(chat.keyPackages[DevUser(d)].key)
            /\ vault'[d] = RawKey(chat.keyPackages[DevUser(d)].key)
            /\ nextKey' = nextKey]_vars

\* the vault of d was cleared and a later resolution unwrapped the package
C5_Witness ==
    \E d \in Devices :
        /\ clears[d] = 1
        /\ call[d]["send"].st = "have" /\ call[d]["send"].via = "pkg"
        /\ vault[d] = call[d]["send"].key
        /\ nextKey = 2

\* C6: a resolution whose unwrap of the caller's package fails is not
\* rejected: it returns the vault key and leaves the vault as it was, else
\* the legacy key, else it goes on to generate with the vault as it was
C6_UnwrapFailureFallsThrough ==
    [][\A d \in Devices : \A c \in Callers :
        (/\ Resolves(d, c)
         /\ chat.exists
         /\ HasMyPackage(chat, DevUser(d))
         /\ UnwrapMyPackage(chat, DevUser(d), d).t = "error") =>
            /\ prom'[d][c].pc \in {"resolved", "gen"}
            /\ vault[d].t = "raw" =>
                 /\ prom'[d][c].pc = "resolved"
                 /\ prom'[d][c].rawKey = vault[d]
                 /\ vault'[d] = vault[d]
            /\ (vault[d].t # "raw" /\ chat.encryptionKey.t # "absent") =>
                 /\ prom'[d][c].pc = "resolved"
                 /\ prom'[d][c].rawKey = DecodeLegacyKey(chat.encryptionKey)
            /\ (vault[d].t # "raw" /\ chat.encryptionKey.t = "absent") =>
                 /\ prom'[d][c].pc = "gen"
                 /\ vault'[d] = vault[d]]_vars

\* d holds a key pair, a's package does not unwrap under it, and the call
\* was answered from the vault
C6_Witness ==
    \E d \in {"d1", "d3"} :
        /\ localStorage[d].priv.t = "priv"
        /\ HasMyPackage(chat, "a")
        /\ chat.keyPackages["a"].id # localStorage[d].priv.id
        /\ call[d]["send"].st = "have" /\ call[d]["send"].via = "vault"
        /\ vault[d] = call[d]["send"].key
        /\ vault[d].key # chat.keyPackages["a"].key

\* C8: while no vault is cleared every getChatKey call returns the first
\* key a call returned, and a published package is never replaced by a
\* package that wraps another key
C8_KeyNeverChanges ==
    [][/\ ClearCount' = 0 =>
            \A d \in Devices : \A c \in Callers :
                call'[d][c].st = "have" => call'[d][c].key = firstKey'
       /\ \A u \in Users :
            (chat.keyPackages[u].t = "wrapped" /\
             chat'.keyPackages[u].t = "wrapped") =>
                chat'.keyPackages[u].key = chat.keyPackages[u].key]_vars

\* C9: a public key published in the directory is never changed
C9_PublishedKeyImmutable ==
    [][\A u \in Users :
        directory[u].t = "pub" => directory'[u] = directory[u]]_vars

\* the steps of priority 4 of the resolution of (d, c)
Shares(d, c) == prom[d][c].pc = "share" /\ prom'[d][c].pc = "flag"
Flags(d, c) == prom[d][c].pc = "flag" /\ prom'[d][c].pc = "resolved"

\* C10, as claimed: the generating resolution publishes a package for every
\* participant, each wrapping the generated key
C10_PackageForEveryParticipant ==
    [][\A d \in Devices : \A c \in Callers :
        Shares(d, c) =>
            \A u \in Users :
                /\ chat'.keyPackages[u].t = "wrapped"
                /\ chat'.keyPackages[u].key = prom[d][c].rawKey.key]_vars

\* C10, amended: a resolution that reads a chat without packages and
\* without legacy key, the vault empty, generates a fresh key and stores it
\* in the vault; it publishes one package for each participant whose public
\* key is published when the key is shared, unwrapping under the private key
\* of that public key to the generated key, and none for the others; then
\* it sets e2eeEnabled and returns the generated key
C10_PackageForPublishedParticipants ==
    [][\A d \in Devices : \A c \in Callers :
        /\ (/\ Resolves(d, c)
            /\ chat.exists /\ ~chat.hasKeyPackages
            /\ chat.encryptionKey.t = "absent"
            /\ vault[d].t = "absent") => prom'[d][c].pc = "gen"
        /\ prom[d][c].pc = "gen" /\ prom'[d][c].pc # "gen" =>
            /\ prom'[d][c].rawKey = RawKey(nextKey)
            /\ vault'[d] = RawKey(nextKey)
            /\ nextKey' = nextKey + 1
            /\ \A e \in Devices \ {d} : vault[e] # RawKey(nextKey)
        /\ Shares(d, c) =>
            \A u \in Users :
                IF directory[u].t = "pub"
                THEN DecryptWithPrivateKey(chat'.keyPackages[u],
                                           PrivKey(directory[u].id))
                        = prom[d][c].rawKey
                ELSE chat'.keyPackages[u].t = "absent"
        /\ Flags(d, c) =>
            /\ chat'.e2eeEnabled
            /\ call'[d][c].st = "have"
            /\ call'[d][c].key = prom[d][c].rawKey
            /\ prom[d][c].rawKey.t = "raw"]_vars

\* the generating call has returned, a package wraps its key for the
\* published participant and there is none for the unpublished one
C10_Witness ==
    \E d \in Devices : \E u \in Users : \E v \in Users :
        /\ call[d]["send"].st = "have" /\ call[d]["send"].via = "gen"
        /\ chat.e2eeEnabled /\ chat.hasKeyPackages
        /\ chat.keyPackages[u] =
              EncryptWithPublicKey(call[d]["send"].key, directory[u])
        /\ directory[u].t = "pub"
        /\ directory[v].t = "absent" /\ chat.keyPackages[v].t = "absent"

\* C7: from any state in which a key has been generated and every
\* participant's public key is published, the vaults of the devices that
\* keep accessing the chat eventually hold one and the same key for good
AllPublished == \A u \in Users : directory[u].t = "pub"
VaultsAgree ==
    \A d \in {"d1", "d2"} : vault[d].t = "raw" /\ vault[d] = vault["d1"]
C7_EventualConvergence == (nextKey > 1 /\ AllPublished) ~> []VaultsAgree

C12_OrphanRule ==
    [][\A d \in Devices : \A c \in Callers :
        (/\ Resolves(d, c)
         /\ chat.exists
         /\ vault[d].t = "raw"
         /\ UnwrapMyPackage(chat, DevUser(d), d).t # "raw") =>
            IF /\ chat.hasKeyPackages
               /\ chat.keyPackages[DevUser(d)].t = "absent"
               /\ ~chat.e2eeEnabled
            THEN /\ prom'[d][c].via # "vault"
                 /\ vault'[d] # vault[d]
                 /\ chat.encryptionKey.t = "absent" =>
                      /\ prom'[d][c].pc = "gen"
                      /\ vault'[d] = Absent
            ELSE /\ prom'[d][c].pc = "resolved"
                 /\ prom'[d][c].via = "vault"
                 /\ call'[d][c].key = vault[d]
                 /\ vault'[d] = vault[d]]_vars

\* a resolution has deleted an orphaned vault entry and goes on to generate
C12_Witness ==
    \E d \in Devices :
        /\ prom[d]["send"].pc = "gen" /\ prom[d]["send"].via = "orphan"
        /\ vault[d] = Absent
        /\ chat.hasKeyPackages /\ ~chat.e2eeEnabled

\* C13: a resolution that finds no usable package and no vault key, but a
\* legacy key in the chat document, returns the decoded legacy key, stores
\* it in the vault and generates no key
C13_LegacyKey ==
    [][\A d \in Devices : \A c \in Callers :
        (/\ Resolves(d, c)
         /\ chat.exists
         /\ UnwrapMyPackage(chat, DevUser(d), d).t # "raw"
         /\ vault[d].t = "absent"
         /\ chat.encryptionKey.t = "b64raw") =>
            /\ prom'[d][c].pc = "resolved"
            /\ call'[d][c].st = "have"
            /\ call'[d][c].key = RawKey(chat.encryptionKey.key)
            /\ vault'[d] = RawKey(chat.encryptionKey.key)
            /\ nextKey' = nextKey
            /\ chat' = chat]_vars

C13_Witness ==
    \E d \in Devices :
        /\ chat.encryptionKey = LegacyKey
        /\ call[d]["send"].st = "have" /\ call[d]["send"].via = "legacy"
        /\ call[d]["send"].key = RawKey(0)
        /\ vault[d] = RawKey(0)
        /\ nextKey = 1

\* C14: once step 4 has generated and stored the key, the caller holds it,
\* whether or not the packages and the e2eeEnabled marker are written yet
C14_KeyBeforePublish ==
    \A d \in Devices : \A c \in Callers :
        (/\ prom[d][c].pc \in {"share", "flag"}
         /\ prom[d][c].rawKey.t = "raw") =>
            /\ call[d][c].st = "have"
            /\ call[d][c].key = prom[d][c].rawKey

\* C15: when wrapping fails for a participant (no published public key),
\* the map written still holds the packages of the other participants, each
\* wrapping the generated key; the generation goes on to set the
\* e2eeEnabled marker and returns the generated key
C15_PartialShare ==
    [][\A d \in Devices : \A c \in Callers :
        /\ (Shares(d, c) /\ \E v \in Users : directory[v].t # "pub") =>
              /\ chat'.hasKeyPackages
              /\ \A u \in Users :
                    directory[u].t = "pub" =>
                        chat'.keyPackages[u] =
                            EncryptWithPublicKey(prom[d][c].rawKey,
                                                 directory[u])
        /\ (/\ prom[d][c].pc = "flag" /\ prom'[d][c].pc # "flag"
            /\ \E v \in Users : chat.keyPackages[v].t = "absent") =>
              /\ chat'.e2eeEnabled
              /\ chat'.keyPackages = chat.keyPackages
              /\ prom'[d][c].pc = "resolved"
              /\ call'[d][c].st = "have"
              /\ call'[d][c].key = prom[d][c].rawKey]_vars

C15_Witness ==
    \E d \in Devices : \E v \in Users :
        /\ v # DevUser(d)
        /\ prom[d]["send"].pc = "resolved" /\ prom[d]["send"].via = "gen"
        /\ call[d]["send"].st = "have"
        /\ call[d]["send"].key = vault[d]
        /\ directory[v].t = "absent" /\ chat.keyPackages[v].t = "absent"
        /\ DecryptWithPrivateKey(chat.keyPackages[DevUser(d)],
                                 GetMyPrivateKey(d)) = vault[d]
        /\ chat.e2eeEnabled

\* C16: when a resolution completes and the vault holds the key it returns,
\* running the resolution again on the state it leaves returns the same
\* key, leaves the vault as it is and does not reach step 4, the only step
\* that writes the chat document
C16_Idempotent ==
    [][\A d \in Devices : \A c \in Callers :
        (/\ prom[d][c].pc # "resolved" /\ prom'[d][c].pc = "resolved"
         /\ vault'[d] = call'[d][c].key) =>
            /\ ResolveLocal(chat, DevUser(d), d)'.via
                  \in {"pkg", "vault", "legacy"}
            /\ ResolveLocal(chat, DevUser(d), d)'.key = call'[d][c].key
            /\ ResolveLocal(chat, DevUser(d), d)'.vault = vault'[d]]_vars

\* C17: a resolution that returns the key of the caller's package leaves
\* the keyPackages map and the e2eeEnabled marker of the chat as they were
C17_UnwrapFrame ==
    [][\A d \in Devices : \A c \in Callers :
        (Resolves(d, c) /\ prom'[d][c].via = "pkg") =>
            /\ chat'.keyPackages = chat.keyPackages
            /\ chat'.hasKeyPackages = chat.hasKeyPackages
            /\ chat'.e2eeEnabled = chat.e2eeEnabled]_vars

C17_Witness ==
    \E d \in Devices :
        /\ prom[d]["send"].pc = "resolved" /\ prom[d]["send"].via = "pkg"
        /\ call[d]["send"].st = "have"
        /\ chat.keyPackages[DevUser(d)].t = "wrapped"
        /\ RawKey(chat.keyPackages[DevUser(d)].key) = call[d]["send"].key
        /\ chat.e2eeEnabled

\* String.prototype.isWellFormed: no surrogate outside a pair
IsWellFormed(s) ==
    \A i \in 1..Len(s) :
        /\ s[i] = "H" => (i < Len(s) /\ s[i + 1] = "L")
        /\ s[i] = "L" => (i > 1 /\ s[i - 1] = "H")

C19_WrongKeyFails ==
    /\ (codec.op = "decryptText" /\ codec.key2 # codec.key) =>
          /\ ~codec.res.ok
          /\ codec.res.val = <<>>
    /\ (codec.op = "decryptFile" /\ codec.key2 # codec.key) =>
          /\ ~codec.res.ok
          /\ codec.res.val.bytes = <<>>

C19_Witness ==
    /\ codec.op = "decryptFile"
    /\ codec.input.bytes = <<0, 255>>
    /\ codec.key = RawKey(1) /\ codec.key2 = RawKey(2)
    /\ codec.out.blob.bytes.data = <<0, 255>>
    /\ ~codec.res.ok

\* C20: decryptWithPrivateKey of what encryptWithPublicKey made of S under
\* a public key returns S with the private key of the same pair and fails
\* with the private key of any other pair
C20_RsaRoundTrip ==
    codec.op = "decryptWithPrivateKey" =>
        IF codec.key2.id = codec.key.id
        THEN codec.res = codec.input
        ELSE codec.res = Failure

C20_Witness ==
    /\ codec.op = "decryptWithPrivateKey"
    /\ codec.input = RawKey(2)
    /\ codec.key = PubKey(1) /\ codec.key2 = PrivKey(2)
    /\ codec.out.t = "wrapped"
    /\ codec.res.t = "error"

\* the call made in a step of the vault
Called(op) == keyStore'.last.op = op /\ keyStore' # keyStore

\* C21: importKeys of the object exportAllKeys returned, into an empty
\* vault, gives a vault with the chat ids of the exported vault, each with
\* the key bytes it had there
C21_ExportImport ==
    [][(Called("importKeys") /\ keyStore.other = EmptyStore) =>
          /\ keyStore'.other = keyStore.backup.from
          /\ \A c \in ChatIds :
                /\ HasKey(keyStore.other, c)' = HasKey(keyStore.backup.from, c)
                /\ GetKey(keyStore.other, c)' = GetKey(keyStore.backup.from, c)
      ]_vars

C21_Witness ==
    /\ keyStore.op = "vault"
    /\ keyStore.last.op = "importKeys"
    /\ keyStore.backup.from["c1"] = Entry(Uint8Array(<<0, 255>>))
    /\ keyStore.backup.from["c2"] = Entry(Uint8Array(<<255>>))
    /\ keyStore.other = keyStore.backup.from
    /\ keyStore.db # keyStore.other

\* C22: storeKey(c, k) makes getKey(c) return k and hasKey(c) true,
\* deleteKey(c) makes getKey(c) null and hasKey(c) false, both leave every
\* other entry alone, no other call on this vault changes an entry, and
\* getKey and hasKey answer from the entry as it is
C22_LastWriteWins ==
    [][\A c \in ChatIds :
        LET last == keyStore'.last IN
        /\ (Called("storeKey") /\ last.chatId = c) =>
              /\ GetKey(keyStore.db, c)'.null = FALSE
              /\ GetKey(keyStore.db, c)'.u8 = last.key.u8
              /\ HasKey(keyStore.db, c)'
        /\ (Called("deleteKey") /\ last.chatId = c) =>
              /\ GetKey(keyStore.db, c)' = Null
              /\ ~HasKey(keyStore.db, c)'
        /\ ~(last.op \in {"storeKey", "deleteKey"} /\ last.chatId = c) =>
              keyStore'.db[c] = keyStore.db[c]
        /\ (Called("getKey") /\ last.chatId = c) =>
              last.result = GetKey(keyStore.db, c)'
        /\ (Called("hasKey") /\ last.chatId = c) =>
              last.has = keyStore.db[c].present]_vars

C22_Witness ==
    /\ keyStore.op = "vault"
    /\ keyStore.last.op = "getKey" /\ keyStore.last.chatId = "c1"
    /\ keyStore.last.result = [null |-> FALSE, u8 |-> <<255>>]
    /\ keyStore.db["c2"] = Entry(Uint8Array(<<0, 255>>))
    /\ keyStore.backup.taken /\ keyStore.backup.from["c1"].key = <<0, 255>>

\* C23: the decrypted media cache never holds more than MAX_CACHE_SIZE
\* entries
C23_CacheBounded ==
    media.op = "cache" => Len(media.cache) <= MAX_CACHE_SIZE

\* a full cache took one more entry: the oldest was evicted and revoked
C23_Witness ==
    /\ media.op = "cache"
    /\ Len(media.cache) = MAX_CACHE_SIZE
    /\ media.nextUrl > MAX_CACHE_SIZE + 1
    /\ 1 \in media.revoked
    /\ \A i \in 1..Len(media.cache) : media.cache[i].blobUrl # 1

\* C24: once the user has logged out the media cache is empty and every
\* blob URL it held is revoked
C24_ClearedOnLogout ==
    (media.op = "cache" /\ ~media.signedIn) =>
        /\ media.cache = <<>>
        /\ \A u \in 1..(media.nextUrl - 1) : u \in media.revoked

\* the AES key a stored ciphertext was made with
KeyOf(data) == RawKey(Atob(data.encryptedText).key)

\* C25: when the key is resolved the handler delivers one message for every
\* document of the snapshot: a document that does not decrypt under the
\* key as the placeholder with decryptionError, every other one with its
\* text; onError is not called
C25_PlaceholderPerMessage ==
    (inbox.op = "snapshot" /\ inbox.pc = "done"
        /\ inbox.chatKey.t = "raw") =>
        /\ inbox.onMessages /\ ~inbox.onError
        /\ Len(inbox.messages) = Len(inbox.docs)
        /\ \A i \in 1..Len(inbox.docs) :
              LET data == inbox.docs[i]
                  m == inbox.messages[i]
              IN  IF data.encrypted /\ KeyOf(data) # inbox.chatKey
                  THEN m.text = DecryptionFailed /\ m.decryptionError
                  ELSE m.text = <<"A">> /\ ~m.decryptionError

C25_Witness ==
    /\ inbox.op = "snapshot" /\ inbox.pc = "done"
    /\ inbox.chatKey = RawKey(1)
    /\ Len(inbox.docs) = 2
    /\ KeyOf(inbox.docs[1]) = RawKey(2) /\ inbox.docs[1].encrypted
    /\ KeyOf(inbox.docs[2]) = RawKey(1) /\ inbox.docs[2].encrypted
    /\ inbox.messages[1].decryptionError
    /\ inbox.messages[2].text = <<"A">> /\ inbox.messages[2].encrypted

\* C26: when getChatKey rejects, the handler still delivers the messages of
\* the snapshot, each as a placeholder with the error marker, and does not
\* call onError
C26_PlaceholdersWithoutKey ==
    (inbox.op = "snapshot" /\ inbox.pc = "done"
        /\ inbox.chatKey.t # "raw") =>
        /\ ~inbox.onError
        /\ inbox.onMessages
        /\ Len(inbox.messages) = Len(inbox.docs)
        /\ \A i \in 1..Len(inbox.messages) :
              inbox.messages[i].decryptionError

InFlight(d) ==
    {c \in Callers : prom[d][c].pc \in {"read", "gen", "share", "flag"}}

\* C28: a process has at most one unsettled resolution of the chat; a
\* resolution starts only when keyCachePromises has no entry for the chat,
\* and the entry of a resolution is in keyCachePromises for as long as the
\* resolution has not settled
C28_OneInFlight ==
    [][\A d \in Devices :
        /\ Cardinality(InFlight(d)') <= 1
        /\ \A c \in Callers :
              /\ c \in InFlight(d)' => keyCachePromises'[d] = c
              /\ (prom[d][c].pc # "read" /\ prom'[d][c].pc = "read") =>
                    /\ keyCachePromises[d] = NoCaller
                    /\ InFlight(d) = {}]_vars

\* the receive call joined the unsettled resolution the send call started
C28_Witness ==
    /\ prom["d1"]["send"].pc = "share"
    /\ keyCachePromises["d1"] = "send"
    /\ call["d1"]["send"].st = "wait"
    /\ call["d1"]["recv"].st = "wait" /\ call["d1"]["recv"].p = "send"
    /\ prom["d1"]["recv"].pc = "none"

\* C29: the keyCachePromises entry of a settled resolution, resolved or
\* rejected, is eventually removed; a getChatKey call that finds no entry
\* starts a new resolution, and that resolution answers from the chat
\* document as it is when it reads it
C29_EntryExpires ==
    /\ \A d \in {"d1", "d2"} :
          (/\ keyCachePromises[d] = "recv"
           /\ prom[d]["recv"].pc \in {"resolved", "rejected"})
              ~> (keyCachePromises[d] = NoCaller)
    /\ [][\A d \in {"d1", "d2"} :
            /\ (/\ call[d]["recv"].st = "idle" /\ call'[d]["recv"].st # "idle"
                /\ keyCachePromises[d] = NoCaller) =>
                  /\ prom'[d]["recv"].pc = "read"
                  /\ keyCachePromises'[d] = "recv"
            /\ (Resolves(d, "recv") /\ prom'[d]["recv"].pc = "resolved") =>
                  call'[d]["recv"].key =
                      ResolveLocal(chat, DevUser(d), d).key]_vars

\* the entry of the resolution that generated the key has expired and a
\* later call on d1 has started a new one that has not read the chat yet
C29_Witness ==
    /\ prom["d1"]["recv"].pc = "read"
    /\ keyCachePromises["d1"] = "recv"
    /\ call["d1"]["recv"].st = "wait"
    /\ vault["d1"] = RawKey(1)
    /\ chat.e2eeEnabled
    /\ firstKey = RawKey(1)

\* C30: when a device publishes packages wrapping K, and when it sets the
\* marker, its vault holds K; a generation whose vault write fails writes
\* nothing to the chat document, then or later
C30_VaultBeforePublish ==
    [][\A d \in Devices : \A c \in Callers :
        /\ Shares(d, c) =>
              /\ prom[d][c].rawKey.t = "raw"
              /\ vault[d] = prom[d][c].rawKey
              /\ \A u \in Users :
                    chat'.keyPackages[u].t = "wrapped" =>
                        RawKey(chat'.keyPackages[u].key) = vault[d]
        /\ Flags(d, c) => vault[d] = prom[d][c].rawKey
        /\ (prom[d][c].pc = "gen" /\ prom'[d][c].pc = "rejected") =>
              /\ chat' = chat
              /\ vault' = vault
              /\ call'[d][c].st = "fail"
        /\ prom[d][c].pc = "rejected" =>
              prom'[d][c].pc \in {"rejected", "none"}]_vars

\* a first generation failed at the vault write and published nothing; a
\* second one, on d1, stored its key and then published its packages
C30_Witness ==
    /\ nextKey = 3
    /\ prom["d1"]["send"].pc = "flag"
    /\ prom["d1"]["send"].rawKey = RawKey(2)
    /\ vault["d1"] = RawKey(2) /\ vault["d2"] = Absent
    /\ chat.hasKeyPackages
    /\ chat.keyPackages["a"].t = "wrapped" /\ chat.keyPackages["a"].key = 2
    /\ ~chat.e2eeEnabled


\* the entries of the cache before a step that are no longer in it after
Dropped ==
    {media.cache[i] : i \in {k \in 1..Len(media.cache) :
        ~\E j \in 1..Len(media'.cache) :
            /\ media'.cache[j].id = media.cache[k].id
            /\ media'.cache[j].first = media.cache[k].first}}

\* C31: a cacheMedia call on a full cache drops one entry, the one inserted
\* earliest among those present, and revokes the blob URL that entry holds
C31_FifoEviction ==
    [][(/\ media.op = "cache"
        /\ media'.nextUrl # media.nextUrl
        /\ Len(media.cache) >= MAX_CACHE_SIZE) =>
            \E e \in Dropped :
                /\ Dropped = {e}
                /\ \A i \in 1..Len(media.cache) :
                       e.first <= media.cache[i].first
                /\ e.blobUrl \in media'.revoked
                /\ e.blobUrl \notin media.revoked
                /\ media'.revoked = media.revoked \cup {e.blobUrl}]_vars

\* the cache was filled, its oldest entry removed by removeCachedMedia, and
\* after two more cacheMedia calls the oldest of the rest (of URL 2) is gone
C31_Witness ==
    /\ media.op = "cache"
    /\ Len(media.cache) = MAX_CACHE_SIZE
    /\ media.revoked = {1, 2}
    /\ media.nextUrl = MAX_CACHE_SIZE + 3
    /\ \A i \in 1..Len(media.cache) : media.cache[i].first > 2

\* the step in which a getDecryptedMediaUrl call starts
DownloadStarts ==
    /\ download.op = "download"
    /\ download.pc \in {"idle", "done"}
    /\ download' # download

\* C32: a getDecryptedMediaUrl call for a message whose id is in the cache
\* returns the blob URL and the MIME type of the entry, calls getChatKey not
\* at all, fetches nothing, and leaves the cache as it was
C32_CacheHit ==
    [][(DownloadStarts /\ MapHas(media.cache, download'.id)) =>
          /\ download'.pc = "done"
          /\ download'.result =
               Returned(MapGet(media.cache, download'.id).blobUrl,
                        MapGet(media.cache, download'.id).mimeType)
          /\ download'.keyCalls = 0
          /\ download'.chatKey = Absent
          /\ download'.tried = {}
          /\ media' = media]_vars

\* a message was downloaded, and a second call for it was served from the
\* cache
C32_Witness ==
    /\ download.op = "download" /\ download.pc = "done"
    /\ MapHas(download.before, download.id)
    /\ download.result.ok /\ download.result.blobUrl = 1
    /\ download.result.mimeType = "application/octet-stream"
    /\ download.keyCalls = 0
    /\ media.nextUrl = 2

\* C33: a call whose direct fetch (getBlob and the decryption) failed tries
\* the download URL; when that fetch and the decryption succeed the call
\* returns the media and the cache holds it; a call that fetched fails only
\* after both have failed
C33_Fallback ==
    (download.op = "download" /\ download.pc = "done") =>
        /\ "getBlob" \in download.failed => "fetch" \in download.tried
        /\ ("fetch" \in download.tried /\ "fetch" \notin download.failed) =>
             /\ download.result.ok
             /\ GetCachedMedia(media.cache, download.id) =
                  [null |-> FALSE, blobUrl |-> download.result.blobUrl,
                   mimeType |-> download.result.mimeType]
        /\ (download.tried # {} /\ ~download.result.ok) =>
             download.failed = {"getBlob", "fetch"}

\* the direct fetch failed, the fallback got the blob and it decrypted
C33_Witness ==
    /\ download.op = "download" /\ download.pc = "done"
    /\ download.failed = {"getBlob"}
    /\ download.tried = {"getBlob", "fetch"}
    /\ download.result.ok
    /\ MapHas(media.cache, download.id)
    /\ ~MapHas(download.before, download.id)

\* C34: a call for a message of the Cloudinary format whose id is not in
\* the cache ends at once with the please-resend error: it calls getChatKey
\* not at all, fetches nothing, and leaves the cache as it was
C34_LegacyMedia ==
    [][(/\ DownloadStarts
        /\ download.content.publicId
        /\ ~MapHas(media.cache, download'.id)) =>
          /\ download'.pc = "done"
          /\ download'.result = Thrown("legacy")
          /\ download'.keyCalls = 0
          /\ download'.chatKey = Absent
          /\ download'.tried = {}
          /\ media' = media]_vars

\* a message of the Cloudinary format that also has filePath and iv was
\* refused
C34_Witness ==
    /\ download.op = "download" /\ download.pc = "done"
    /\ download.content.publicId /\ download.content.complete
    /\ download.result = Thrown("legacy")
    /\ download.keyCalls = 0 /\ download.tried = {}
    /\ media.cache = <<>>

\* C35: the cache changes only in a step that ends a call with a blob that
\* decrypted under the key of the call; a call that failed returns no blob
\* URL, and the cache is as the call found it
C35_CacheAfterDecryption ==
    [][download.op = "download" =>
        /\ media' # media =>
             /\ download'.pc = "done" /\ download'.result.ok
             /\ DecryptFile(download.content.blob, download.chatKey,
                            download.content.iv).ok
        /\ (download'.pc = "done" /\ ~download'.result.ok) =>
             /\ download'.result.error # "none"
             /\ download'.result.blobUrl = 0
             /\ media'.cache = download'.before
             /\ media' = media]_vars

\* with one message in the cache, a call resolved a key that does not
\* decrypt the blob: both fetches failed
C35_Witness ==
    /\ download.op = "download" /\ download.pc = "done"
    /\ download.failed = {"getBlob", "fetch"}
    /\ download.result = Thrown("download")
    /\ ~DecryptFile(download.content.blob, download.chatKey,
                    download.content.iv).ok
    /\ download.before # <<>>
    /\ media.cache = download.before

\* C36: a resolution started without the caller's email has the outcome the
\* same resolution has with it: the same key by the same way, and a
\* key generation only where that one generates; with a package for the
\* user in the chat document it generates no key and leaves the packages
C36_EmailIndependent ==
    [][\A d \in Devices : \A c \in Callers :
        (Resolves(d, c) /\ chat.exists /\ prom[d][c].me = NoUser) =>
            LET withEmail == ResolveLocal(chat, DevUser(d), d) IN
            /\ withEmail.via # "gen" =>
                 /\ prom'[d][c].pc = "resolved"
                 /\ prom'[d][c].rawKey = withEmail.key
            /\ withEmail.via = "gen" => prom'[d][c].pc = "gen"
            /\ HasMyPackage(chat, DevUser(d)) => prom'[d][c].pc # "gen"]_vars

\* C37: in every state, a call of initializeUserKeyPair on any device leaves
\* behind a published key that is the counterpart of the private key in the
\* localStorage of the device: a key wrapped for the published key unwraps
\* there
C37_PublishedMatchesStored ==
    \A d \in Devices :
        LET after == InitializedUserKeyPair(d) IN
        /\ after.publicKey.t = "pub"
        /\ after.publicKey.id = after.localStorage.priv.id
        /\ DecryptWithPrivateKey(
               EncryptWithPublicKey(RawKey(1), after.publicKey),
               after.localStorage.priv) = RawKey(1)

\* C38: the setDoc of a getOrCreateDmChat call leaves a chat document that
\* exists as it is: key packages and the e2eeEnabled marker that were
\* written stay
C38_ChatNotOverwritten ==
    [][\A d \in Devices :
        (dm[d] = "create" /\ dm'[d] = "idle" /\ chat.exists) =>
            /\ chat'.hasKeyPackages = chat.hasKeyPackages
            /\ chat'.keyPackages = chat.keyPackages
            /\ chat'.e2eeEnabled = chat.e2eeEnabled]_vars

\* C39: the message document of an upload is added after the encrypted
\* blob was stored at the path the document names; a call that ended by a
\* validation error or a failed upload added no document, and a call that
\* ended by a validation error called getChatKey not at all
C39_RecordAfterBlob ==
    [][upload.op = "upload" =>
        /\ \A r \in upload'.records \ upload.records :
             /\ [filePath |-> r.media.filePath,
                 blob |-> upload.encrypted.blob] \in upload.storage
             /\ r.media.filePath.extension = "enc"
             /\ r.media.iv = upload.encrypted.iv
        /\ (upload'.pc = "done" /\
            upload'.error \in {"invalid type", "too large", "upload"}) =>
               upload'.records = {}
        /\ (upload'.pc = "done" /\
            upload'.error \in {"invalid type", "too large"}) =>
               /\ upload'.keyCalls = 0
               /\ upload'.chatKey = Absent
               /\ upload'.storage = {}
        /\ (\/ upload.type = "image" /\ upload.file.type # "image/png"
            \/ upload.type \in {"image", "audio"} /\
                  upload.file.size > 5 * 1024 * 1024) =>
               /\ upload'.pc \in {"idle", "done"}
               /\ upload'.records = {}
               /\ upload'.keyCalls = 0]_vars

\* an image was encrypted, stored, and its message document added
C39_Witness ==
    /\ upload.op = "upload" /\ upload.pc = "done" /\ upload.error = "none"
    /\ upload.type = "image" /\ upload.file.bytes = <<0, 255>>
    /\ upload.storage =
         {[filePath |-> upload.filePath, blob |-> upload.encrypted.blob]}
    /\ \E r \in upload.records :
         /\ upload.records = {r}
         /\ r.media.filePath = upload.filePath
         /\ DecryptFile(upload.encrypted.blob, upload.chatKey,
                        r.media.iv).val.bytes = <<0, 255>>

\* C40: a rejected resolution is in keyCachePromises until the timer
\* removes it; a getChatKey call made while it is there gets its rejection,
\* starts no resolution, and leaves the cache, the vault and the chat
\* document as they are
C40_RejectionCached ==
    [][\A d \in Devices :
        /\ \A c \in Callers :
             prom[d][c].pc = "rejected" => keyCachePromises[d] = c
        /\ \A c \in Callers :
             (/\ call[d][c].st = "idle" /\ call'[d][c].st # "idle"
              /\ keyCachePromises[d] # NoCaller
              /\ prom[d][keyCachePromises[d]].pc = "rejected") =>
                /\ call'[d][c].st = "fail"
                /\ call'[d][c].p = keyCachePromises[d]
                /\ call'[d][c].key = Absent
                /\ prom' = prom
                /\ keyCachePromises' = keyCachePromises
                /\ vault' = vault
                /\ chat' = chat
                /\ nextKey' = nextKey]_vars

\* the resolution the send call started was rejected (no chat document);
\* the receive call made afterwards got the same rejection
C40_Witness ==
    /\ prom["d1"]["send"].pc = "rejected"
    /\ keyCachePromises["d1"] = "send"
    /\ call["d1"]["send"].st = "fail"
    /\ call["d1"]["recv"].st = "fail"
    /\ call["d1"]["recv"].p = "send"
    /\ call["d1"]["recv"].with = {}
    /\ prom["d1"]["recv"] = NoPromise
====
